---- MODULE Spec2Model ----
(***************************************************************************)
(* Model of the incremental segment ledger of unas-automation:             *)
(*   - LedgerSync   = build_monthly_workbook_for_previous_weeks            *)
(*   - DailyRotator = daily_summary_orders_to_excel / _into_excel          *)
(* together with the sheet helpers of src/src/unas_helper.py and           *)
(* src/src/popfanatic_actions.py they call.                                *)
(*                                                                         *)
(* A workbook is a function from sheet names to sheets, a sheet is the     *)
(* sequence of its rows 1..max_row, a row is the sequence of its cells.    *)
(* A cell is a triple <<tag, x, y>>:                                       *)
(*   <<"None",0,0>>  no value            <<"str",0,0>>   the string ""     *)
(*   <<"col",f,0>>   header name f       <<"val",id,f>>  field f of order  *)
(*   <<"Week",s,e>>  "Week: <s>-<e>"     <<"Day",d,d>>   "Day: <d>"        *)
(*   <<"sumW",0,0>>  "Orders in week:"   <<"sumD",0,0>>  "Orders on day:"  *)
(*   <<"int",n,0>>   the integer n                                         *)
(* Dates are day numbers; day 0 is Monday 2025-07-28.                      *)
(***************************************************************************)
EXTENDS Integers, Sequences, FiniteSets, TLC

VARIABLES
    variant,      \* "unas" (unas_actions.py) or "pop" (popfanatic_actions.py)
    today,        \* date.today()
    months_back,  \* parameter of build_monthly_workbook_for_previous_weeks
    provider,     \* the orders the external record provider holds
    disk,         \* the file at out_xlsx: [st: "none"|"ok"|"partial", wb]
    pc,           \* position of the running job
    weeks,        \* LedgerSync: weekly_ranges_between(window_start, window_end)
    idx,          \* LedgerSync: index of the current week in weeks
    labels,       \* LedgerSync: existing_labels_by_sheet
    headers,      \* LedgerSync: existing_headers_by_sheet
    df_week,      \* LedgerSync: records fetched for the current week
    sheet_i,      \* LedgerSync: index of the current sheet in months_hit
    mem,          \* the workbook object being saved (wb of wb.save)
    dfile,        \* the file at output_path of the daily job
    df_today,     \* DailyRotator: today's records
    df_yday,      \* DailyRotator: yesterday's records
    runs,         \* number of job runs started so far
    shifts,       \* number of times the calendar day advanced
    snap,         \* history: the file's content when the current run started
    prev,         \* history: how the previous run ended
    fetched,      \* history: weeks this run asked the provider for
    failedAt,     \* history: index of the week whose fetch failed (0: none)
    sameDay,      \* history: the previous run ran on the same day as this one
    lastDay,      \* history: date.today() of the latest run
    est_df,       \* estimate_unique_order_count: the frame df it is called with
    est_count,    \* estimate_unique_order_count: the value returned (-1: not called)
    call,         \* a helper function checked on its own: its name and arguments
    ret           \* that function's local variables and the value it returned

vars == <<variant, today, months_back, provider, disk, pc, weeks, idx, labels,
          headers, df_week, sheet_i, mem, dfile, df_today, df_yday, runs,
          shifts, snap, prev, fetched, failedAt, sameDay, lastDay,
          est_df, est_count, call, ret>>

\* the state of the pure functions that are checked on their own
pureVars == <<est_df, est_count, call, ret>>

-----------------------------------------------------------------------------
(* Bounds of the model *)

\* how many job runs one behaviour holds
MaxRuns == 3

\* how many times the calendar day advances in one behaviour
MaxShifts == 1

\* spacer_rows: blank rows written after a segment
SpacerRows == 1

-----------------------------------------------------------------------------
(* Calendar (datetime.date): months August..November 2025 as day numbers *)

Months ==
    << [y |-> 2025, m |-> 8,  first |-> 4,  last |-> 34],
       [y |-> 2025, m |-> 9,  first |-> 35, last |-> 64],
       [y |-> 2025, m |-> 10, first |-> 65, last |-> 95],
       [y |-> 2025, m |-> 11, first |-> 96, last |-> 125] >>

MonthRec(d) == CHOOSE r \in {Months[i] : i \in 1..Len(Months)} :
                   r.first <= d /\ d <= r.last

\* date(y, m, 1)
FirstOfMonth(y, m) ==
    (CHOOSE r \in {Months[i] : i \in 1..Len(Months)} : r.y = y /\ r.m = m).first

\* date.weekday(): Monday is 0
weekday(d) == d % 7

Max(a, b) == IF a >= b THEN a ELSE b
\* mutant: the last week is not cut at end_dt
Min_first(a, b) == a

Min(a, b) == IF a <= b THEN a ELSE b

RECURSIVE SortedSeq(_)
\* sorted(S) for a finite set of integers
SortedSeq(S) ==
    IF S = {} THEN <<>>
    ELSE LET m == CHOOSE x \in S : \A y \in S : x <= y
         IN  <<m>> \o SortedSeq(S \ {m})

Range(s) == {s[i] : i \in 1..Len(s)}

-----------------------------------------------------------------------------
(* Windows *)

RECURSIVE WeeksFrom(_, _, _)
WeeksFrom(cur_start, start_dt, end_dt) ==
    IF cur_start <= end_dt
    THEN <<  <<Max(cur_start, start_dt), Min(cur_start + 6, end_dt)>>  >>
         \o WeeksFrom(cur_start + 7, start_dt, end_dt)
    ELSE <<>>

weekly_ranges_between(start_dt, end_dt) ==
    WeeksFrom(start_dt - weekday(start_dt), start_dt, end_dt)

\* mutant: the month of the week's first day alone
week_months_covered_start(start_dt, end_dt) == <<MonthRec(start_dt).first>>

\* the first days of the months a week touches, sorted
week_months_covered(start_dt, end_dt) ==
    SortedSeq({ MonthRec(cur).first : cur \in start_dt..end_dt })

\* f"{d.year:04d}-{d.month:02d}"
month_sheet_name(d) == <<MonthRec(d).y, MonthRec(d).m>>

months_hit(w) ==
    LET ms == week_months_covered(w[1], w[2])
    IN  [i \in 1..Len(ms) |-> month_sheet_name(ms[i])]

RECURSIVE StartMonth(_, _)
\* while start_month <= 0: start_month += 12; start_month_year -= 1
StartMonth(y, m) == IF m <= 0 THEN StartMonth(y - 1, m + 12) ELSE <<y, m>>

window_start(t, mb) ==
    LET ym == StartMonth(MonthRec(t).y, MonthRec(t).m - mb)
    IN  FirstOfMonth(ym[1], ym[2])

-----------------------------------------------------------------------------
(* Records and the external record provider *)

\* the orders the provider may hold: [id, day, flds]
\* day 39 = 2025-09-05, 46 = 2025-09-12, 67 = 2025-10-02, 68 = 2025-10-03
CandidateOrders ==
    { [id |-> 1, day |-> 39, flds |-> {1, 2}],
      [id |-> 2, day |-> 46, flds |-> {1, 3}],
      [id |-> 3, day |-> 67, flds |-> {1, 2}],
      [id |-> 4, day |-> 68, flds |-> {1, 3}] }

\* the days date.today() may be when the behaviour starts
TodayChoices == {67, 68}

MonthsBackChoices == {0, 1}

\* keys of ORDER_COLUMNS, in order (1 stands for Order_Id)
ORDER_COLUMNS == <<1, 2, 3>>

NoneCell == <<"None", 0, 0>>
StrCell == <<"str", 0, 0>>
NaNCell == <<"nan", 0, 0>>
WeekMarker(label) == <<"Week", label[1], label[2]>>
DayMarker(label) == <<"Day", label, label>>

\* orders whose first field holds the text "Day: <the order's date>"
\* day 67 = 2025-10-02
MarkerTextOrders == { [id |-> 5, day |-> 67, flds |-> {1, 2}] }

\* the cell value of field f of a record: txt() / _flatten_json hand the
\* provider's value on as it is, and ws.cell(value=val) writes it as it is
CellOf(rec, f) ==
    IF rec \in MarkerTextOrders /\ f = 1 THEN DayMarker(rec.day)
    ELSE <<"val", rec.id, f>>

\* get_all_orders / fetch_orders_between + fetch_order_details_for_items:
\* the provider's orders of the interval, in id order
OrdersBetween(P, s, e) ==
    LET S == {o \in P : s <= o.day /\ o.day <= e}
        ids == SortedSeq({o.id : o \in S})
    IN  [i \in 1..Len(ids) |-> CHOOSE o \in S : o.id = ids[i]]

\* columns of the frame built from the fetched records
FrameColumns(v, recs) ==
    IF v = "unas" THEN ORDER_COLUMNS
    ELSE SortedSeq(UNION {recs[i].flds : i \in 1..Len(recs)})

\* xml_string_to_dataframe / details_to_dataframe
ToFrame(v, recs) == [cols |-> FrameColumns(v, recs), recs |-> recs]

\* df.empty
FrameEmpty(df) == Len(df.recs) = 0 \/ Len(df.cols) = 0

\* the value the frame holds for a field the record lacks:
\* txt() gives "" (unas), the frame gives NaN (pop)
Missing(v) == IF v = "unas" THEN StrCell ELSE NaNCell

\* one frame row in column order (dataframe_to_rows)
DataRow(v, rec, cols) ==
    [i \in 1..Len(cols) |->
        IF cols[i] \in rec.flds THEN CellOf(rec, cols[i]) ELSE Missing(v)]

\* mutant: the frame keeps its own columns
Reindex_none(df, header_cols) == df

\* df.reindex(columns=header_cols, ...)
Reindex(df, header_cols) == [cols |-> header_cols, recs |-> df.recs]

\* mutant: nunique that leaves out the cells of records without the field
NUnique_dropna(v, df, f) ==
    Cardinality({ CellOf(df.recs[i], f) :
                    i \in {j \in 1..Len(df.recs) : f \in df.recs[j].flds} })

\* number of distinct values of a column of the frame
NUnique(v, df, f) ==
    Cardinality({ IF f \in df.recs[i].flds THEN CellOf(df.recs[i], f)
                  ELSE Missing(v) : i \in 1..Len(df.recs) })

\* the count written to the summary row of a week block
week_orders_count(v, df) ==
    IF v = "unas"
    THEN IF 1 \in Range(df.cols) THEN NUnique(v, df, 1) ELSE Len(df.recs)
    ELSE IF FrameEmpty(df) THEN 0
         ELSE IF 1 \in Range(df.cols) THEN NUnique(v, df, 1) ELSE Len(df.recs)

\* the count written to the summary row of a day batch
day_orders_count(v, df) ==
    IF v = "unas"
    THEN IF 2 \in Range(df.cols) THEN NUnique(v, df, 2)
         ELSE IF 1 \in Range(df.cols) THEN NUnique(v, df, 1)
         ELSE Len(df.recs)
    ELSE IF FrameEmpty(df) THEN 0
         ELSE IF 1 \in Range(df.cols) THEN NUnique(v, df, 1) ELSE Len(df.recs)

-----------------------------------------------------------------------------
(* Sheets *)

\* ws.max_row: 1 for a sheet without cells
max_row(rows) == IF Len(rows) = 0 THEN 1 ELSE Len(rows)

\* ws.cell(row=r, column=1).value
Col1(rows, r) ==
    IF r <= Len(rows) /\ Len(rows[r]) >= 1 THEN rows[r][1] ELSE NoneCell

HeaderRow(header_cols) == [i \in 1..Len(header_cols) |-> <<"col", header_cols[i], 0>>]

\* rows 1..n of the sheet, rows that do not exist yet being empty
Pad(rows, n) ==
    [r \in 1..Max(n, Len(rows)) |-> IF r <= Len(rows) THEN rows[r] ELSE <<>>]

\* write the rows of block at rows at, at+1, ...
WriteRows(rows, at, block) ==
    LET base == Pad(rows, at - 1)
        n == Max(Len(base), at - 1 + Len(block))
    IN  [r \in 1..n |->
            IF r >= at /\ r < at + Len(block) THEN block[r - at + 1] ELSE base[r]]

\* ws.insert_rows(idx, amount): rows idx.. move down by amount
insert_rows(rows, at, amount) ==
    IF Len(rows) < at THEN rows
    ELSE SubSeq(rows, 1, at - 1) \o [i \in 1..amount |-> <<>>]
         \o SubSeq(rows, at, Len(rows))

RECURSIVE Trim(_)
\* a sheet ends at its last row that holds a cell
Trim(rows) ==
    IF Len(rows) > 0 /\ Len(rows[Len(rows)]) = 0
    THEN Trim(SubSeq(rows, 1, Len(rows) - 1))
    ELSE rows

\* mutant: one row is removed, whatever the amount
delete_rows_one(rows, start, amount) ==
    Trim(SubSeq(rows, 1, start - 1) \o SubSeq(rows, start + 1, Len(rows)))

\* ws.delete_rows(start, amount): the rows below move up
delete_rows(rows, start, amount) ==
    Trim(SubSeq(rows, 1, start - 1) \o SubSeq(rows, start + amount, Len(rows)))

_get_existing_header(rows) == IF Len(rows) = 0 THEN <<NoneCell>> ELSE rows[1]

\* mutant: the scan of column A finds no label
_existing_week_labels_none(rows) == {}

_existing_week_labels_in_sheet(rows) ==
    { <<Col1(rows, r)[2], Col1(rows, r)[3]>> :
        r \in {q \in 1..max_row(rows) : Col1(rows, q)[1] = "Week"} }

\* mutant: the batch always reaches to the last row of the sheet
_find_batch_bounds_to_end(rows, label) ==
    LET hits == {r \in 1..max_row(rows) : Col1(rows, r) = DayMarker(label)}
    IN  IF hits = {} THEN <<0, 0>>
        ELSE <<CHOOSE r \in hits : \A q \in hits : r <= q, max_row(rows)>>

\* (start, end) of the batch, <<0, 0>> for None
_find_batch_bounds(rows, label) ==
    LET hits == {r \in 1..max_row(rows) : Col1(rows, r) = DayMarker(label)}
    IN  IF hits = {} THEN <<0, 0>>
        ELSE LET start == CHOOSE r \in hits : \A q \in hits : r <= q
                 nexts == {r \in (start + 1)..max_row(rows) : Col1(rows, r)[1] = "Day"}
             IN  IF nexts = {} THEN <<start, max_row(rows)>>
                 ELSE <<start, (CHOOSE r \in nexts : \A q \in nexts : r <= q) - 1>>

\* the rows a week block holds: marker, data, summary, spacers
WeekBlock(v, df, label, spacer_rows) ==
    << <<WeekMarker(label)>> >>
    \o [i \in 1..Len(df.recs) |-> DataRow(v, df.recs[i], df.cols)]
    \o << <<  <<"sumW", 0, 0>>, <<"int", week_orders_count(v, df), 0>>  >> >>
    \o [i \in 1..Max(0, spacer_rows) |-> <<NoneCell, StrCell>>]

\* mutant: insert_at = ws.max_row, the block starts on the last row
append_week_block_on_last(v, rows, df, label, spacer_rows) ==
    WriteRows(rows, max_row(rows), WeekBlock(v, df, label, spacer_rows))

append_week_block(v, rows, df, label, spacer_rows) ==
    LET insert_at == max_row(rows) + 1
    IN  WriteRows(rows, insert_at, WeekBlock(v, df, label, spacer_rows))

\* the rows prepend_batch_to_excel writes: marker, data, summary
DayBlock(v, df, label) ==
    << <<DayMarker(label)>> >>
    \o [i \in 1..Len(df.recs) |-> DataRow(v, df.recs[i], df.cols)]
    \o << <<  <<"sumD", 0, 0>>, <<"int", day_orders_count(v, df), 0>>  >> >>

\* a workbook without sheets
NoSheets == [s \in {} |-> <<>>]

NoFile == [st |-> "none", wb |-> NoSheets]

\* mutant: a new Workbook() also when the file exists
_open_or_init_fresh(d, sheet_name, header_cols) ==
    sheet_name :> << HeaderRow(header_cols) >>

\* mutant: row 1 of an existing sheet is written again from header_cols
_open_or_init_rewrite(d, sheet_name, header_cols) ==
    IF d.st = "none"
    THEN sheet_name :> << HeaderRow(header_cols) >>
    ELSE IF sheet_name \in DOMAIN d.wb
         THEN [d.wb EXCEPT ![sheet_name] = WriteRows(@, 1, << HeaderRow(header_cols) >>)]
         ELSE d.wb @@ (sheet_name :> << HeaderRow(header_cols) >>)

\* the workbook _open_or_init_wb_with_header returns for the file d
_open_or_init_wb_with_header(d, sheet_name, header_cols) ==
    IF d.st = "none"
    THEN sheet_name :> << HeaderRow(header_cols) >>
    ELSE IF sheet_name \in DOMAIN d.wb
         THEN d.wb
         ELSE d.wb @@ (sheet_name :> << HeaderRow(header_cols) >>)

\* mutant: total_to_insert leaves out the summary row and the spacer rows
PrependRows_short(v, rows, df, label, spacer_rows) ==
    WriteRows(insert_rows(rows, 2, 1 + Len(df.recs)), 2, DayBlock(v, df, label))

\* mutant: the batch is written below the last row
PrependRows_bottom(v, rows, df, label, spacer_rows) ==
    WriteRows(rows, max_row(rows) + 1, DayBlock(v, df, label))

\* the sheet after prepend_batch_to_excel's edits
PrependRows(v, rows, df, label, spacer_rows) ==
    LET total_to_insert == 1 + Len(df.recs) + 1 + spacer_rows
    IN  WriteRows(insert_rows(rows, 2, total_to_insert), 2, DayBlock(v, df, label))

\* the sheet after delete_batch_by_label's edits
DeleteRows(rows, label) ==
    LET bounds == _find_batch_bounds(rows, label)
    IN  IF bounds = <<0, 0>> THEN rows
        ELSE delete_rows(rows, bounds[1], bounds[2] - bounds[1] + 1)

\* delete_batch_by_label on the sheet: the rows it saves and the value it returns
delete_batch_by_label(rows, label) ==
    [rows |-> DeleteRows(rows, label),
     deleted |-> _find_batch_bounds(rows, label) # <<0, 0>>]

-----------------------------------------------------------------------------
(* Initial state *)

NoFrame == [cols |-> <<>>, recs |-> <<>>]

NoLabels == [s \in {} |-> {}]

\* pd.DataFrame(): no columns, no rows
NoEstFrame == [cols |-> <<>>, rows |-> <<>>]

\* no helper function is being checked on its own
NoCall == [fn |-> "none"]

Ended == {"idle", "done", "failed", "crashed", "d_done", "d_failed", "d_crashed"}

Init ==
    /\ variant \in {"unas", "pop"}
    /\ today \in TodayChoices
    /\ months_back \in MonthsBackChoices
    /\ provider \in SUBSET CandidateOrders
    /\ disk = NoFile
    /\ dfile = NoFile
    /\ pc = "idle"
    /\ weeks = <<>>
    /\ idx = 0
    /\ labels = NoLabels
    /\ headers = NoSheets
    /\ df_week = NoFrame
    /\ sheet_i = 0
    /\ mem = NoSheets
    /\ df_today = NoFrame
    /\ df_yday = NoFrame
    /\ runs = 0
    /\ shifts = 0
    /\ snap = NoFile
    /\ prev = "none"
    /\ fetched = {}
    /\ failedAt = 0
    /\ sameDay = FALSE
    /\ lastDay = 0
    /\ est_df = NoEstFrame
    /\ est_count = -1
    /\ call = NoCall
    /\ ret = NoCall

\* the calendar day advances between two runs
NewDay ==
    /\ pc \in Ended
    /\ shifts < MaxShifts
    /\ today' = today + 1
    /\ shifts' = shifts + 1
    /\ UNCHANGED <<pureVars, variant, months_back, provider, disk, pc, weeks, idx, labels,
                   headers, df_week, sheet_i, mem, dfile, df_today, df_yday,
                   runs, snap, prev, fetched, failedAt, sameDay,
                   lastDay>>

-----------------------------------------------------------------------------
(* LedgerSync: build_monthly_workbook_for_previous_weeks *)

\* f"{start_s}-{end_s}"
WeekLabel(w) == <<w[1], w[2]>>

\* sheet_has_label
sheet_has_label(lab, sheet_name, label) ==
    sheet_name \in DOMAIN lab /\ label \in lab[sheet_name]

\* mutant: any(...) in place of all(...)
WeekRecordedAny(lab, w) ==
    LET mh == months_hit(w)
    IN  Len(mh) > 0 /\ \E i \in 1..Len(mh) : sheet_has_label(lab, mh[i], WeekLabel(w))

\* all(sheet_has_label(sheet, label) for sheet in months_hit)
WeekRecorded(lab, w) ==
    LET mh == months_hit(w)
    IN  Len(mh) > 0 /\ \A i \in 1..Len(mh) : sheet_has_label(lab, mh[i], WeekLabel(w))

\* the header a sheet gets: the existing one, else the default of the variant
LedgerHeaderCols(v, hdrs, sheet_name, df) ==
    LET have == IF sheet_name \in DOMAIN hdrs THEN hdrs[sheet_name] ELSE <<>>
    IN  IF Len(have) = 0 \/ \A i \in 1..Len(have) : have[i] = NoneCell
        THEN IF v = "unas" THEN ORDER_COLUMNS
             ELSE IF FrameEmpty(df) THEN <<0>> ELSE SortedSeq(Range(df.cols))
        ELSE [i \in 1..Len(have) |-> have[i][2]]

\* the week loop moves to the next sheet, or to the next week after the last
NextSheet ==
    IF sheet_i < Len(months_hit(weeks[idx]))
    THEN /\ sheet_i' = sheet_i + 1
         /\ pc' = "write"
         /\ idx' = idx
    ELSE /\ sheet_i' = 0
         /\ pc' = "loop"
         /\ idx' = idx + 1

LedgerStart ==
    /\ pc \in Ended
    /\ runs < MaxRuns
    /\ disk.st # "partial"
    /\ runs' = runs + 1
    /\ prev' = pc
    /\ sameDay' = (runs > 0 /\ lastDay = today)
    /\ lastDay' = today
    /\ weeks' = weekly_ranges_between(window_start(today, months_back), today)
    /\ labels' = [s \in DOMAIN disk.wb |-> _existing_week_labels_in_sheet(disk.wb[s])]
    /\ headers' = [s \in DOMAIN disk.wb |-> _get_existing_header(disk.wb[s])]
    /\ idx' = 1
    /\ sheet_i' = 0
    /\ pc' = "loop"
    /\ snap' = disk
    /\ fetched' = {}
    /\ failedAt' = 0
    /\ df_week' = NoFrame
    /\ mem' = NoSheets
    /\ UNCHANGED <<pureVars, variant, today, months_back, provider, disk, dfile, df_today,
                   df_yday, shifts>>

\* load_workbook(out_xlsx) raises on a file that is not a complete workbook
LedgerStartCorrupt ==
    /\ pc \in Ended
    /\ runs < MaxRuns
    /\ disk.st = "partial"
    /\ runs' = runs + 1
    /\ prev' = pc
    /\ sameDay' = (runs > 0 /\ lastDay = today)
    /\ lastDay' = today
    /\ pc' = "failed"
    /\ snap' = disk
    /\ fetched' = {}
    /\ failedAt' = 0
    /\ weeks' = <<>>
    /\ idx' = 0
    /\ UNCHANGED <<pureVars, variant, today, months_back, provider, disk, labels, headers,
                   df_week, sheet_i, mem, dfile, df_today, df_yday, shifts>>

LedgerSkip ==
    /\ pc = "loop"
    /\ idx <= Len(weeks)
    /\ WeekRecorded(labels, weeks[idx])
    /\ idx' = idx + 1
    /\ UNCHANGED <<pureVars, variant, today, months_back, provider, disk, pc, weeks, labels,
                   headers, df_week, sheet_i, mem, dfile, df_today, df_yday, runs,
                   shifts, snap, prev, fetched, failedAt, sameDay,
                   lastDay>>

\* get_all_orders returns; an empty week is left without a block
LedgerFetch ==
    /\ pc = "loop"
    /\ idx <= Len(weeks)
    /\ ~WeekRecorded(labels, weeks[idx])
    /\ fetched' = fetched \cup {idx}
    /\ LET df == ToFrame(variant, OrdersBetween(provider, weeks[idx][1], weeks[idx][2]))
       IN  IF Len(df.recs) = 0
           THEN /\ idx' = idx + 1
                /\ UNCHANGED <<pc, df_week, sheet_i>>
           ELSE /\ df_week' = df
                /\ sheet_i' = 1
                /\ pc' = "write"
                /\ idx' = idx
    /\ UNCHANGED <<pureVars, variant, today, months_back, provider, disk, weeks, labels,
                   headers, mem, dfile, df_today, df_yday, runs, shifts, snap,
                   prev, failedAt, sameDay,
                   lastDay>>

\* mutant: the exception is caught and the loop goes on with the next week
LedgerFetchFail_continue ==
    /\ pc = "loop"
    /\ idx <= Len(weeks)
    /\ ~WeekRecorded(labels, weeks[idx])
    /\ fetched' = fetched \cup {idx}
    /\ failedAt' = idx
    /\ idx' = idx + 1
    /\ UNCHANGED <<pureVars, variant, today, months_back, provider, disk, pc, weeks, labels,
                   headers, df_week, sheet_i, mem, dfile, df_today, df_yday, runs,
                   shifts, snap, prev, sameDay, lastDay>>

\* get_all_orders raises: nothing catches it, the run ends
LedgerFetchFail ==
    /\ pc = "loop"
    /\ idx <= Len(weeks)
    /\ ~WeekRecorded(labels, weeks[idx])
    /\ fetched' = fetched \cup {idx}
    /\ failedAt' = idx
    /\ pc' = "failed"
    /\ UNCHANGED <<pureVars, variant, today, months_back, provider, disk, weeks, idx, labels,
                   headers, df_week, sheet_i, mem, dfile, df_today, df_yday, runs,
                   shifts, snap, prev, sameDay,
                   lastDay>>

\* one pass of "for sheet in months_hit" up to wb.save
LedgerWrite ==
    /\ pc = "write"
    /\ LET w == weeks[idx]
           sheet == months_hit(w)[sheet_i]
           header_cols == LedgerHeaderCols(variant, headers, sheet, df_week)
           df_aligned == Reindex(df_week, header_cols)
           wb == _open_or_init_wb_with_header(disk, sheet, header_cols)
           lab1 == IF sheet \in DOMAIN labels THEN labels
                   ELSE labels @@ (sheet :> _existing_week_labels_in_sheet(wb[sheet]))
           hdr1 == IF sheet \in DOMAIN labels THEN headers
                   ELSE headers @@ (sheet :> _get_existing_header(wb[sheet]))
       IN  /\ labels' = lab1
           /\ headers' = hdr1
           /\ IF WeekLabel(w) \notin lab1[sheet]
              THEN /\ mem' = [wb EXCEPT ![sheet] =
                                 append_week_block(variant, wb[sheet], df_aligned,
                                                   WeekLabel(w), SpacerRows)]
                   /\ disk' = [st |-> "partial", wb |-> NoSheets]
                   /\ pc' = "saving"
                   /\ UNCHANGED <<idx, sheet_i>>
              ELSE /\ NextSheet
                   /\ UNCHANGED <<mem, disk>>
    /\ UNCHANGED <<pureVars, variant, today, months_back, provider, weeks, df_week, dfile,
                   df_today, df_yday, runs, shifts, snap, prev, fetched,
                   failedAt, sameDay,
                   lastDay>>

\* mutant: the workbook is not saved before the loop goes on
LedgerSaved_deferred ==
    /\ pc = "saving"
    /\ LET sheet == months_hit(weeks[idx])[sheet_i]
       IN  labels' = [labels EXCEPT ![sheet] = @ \cup {WeekLabel(weeks[idx])}]
    /\ NextSheet
    /\ UNCHANGED <<pureVars, variant, today, months_back, provider, disk, weeks, headers,
                   df_week, mem, dfile, df_today, df_yday, runs, shifts, snap, prev,
                   fetched, failedAt, sameDay, lastDay>>

\* wb.save(out_xlsx) has written the whole file
LedgerSaved ==
    /\ pc = "saving"
    /\ disk' = [st |-> "ok", wb |-> mem]
    /\ LET sheet == months_hit(weeks[idx])[sheet_i]
       IN  labels' = [labels EXCEPT ![sheet] = @ \cup {WeekLabel(weeks[idx])}]
    /\ NextSheet
    /\ UNCHANGED <<pureVars, variant, today, months_back, provider, weeks, headers, df_week,
                   mem, dfile, df_today, df_yday, runs, shifts, snap, prev,
                   fetched, failedAt, sameDay,
                   lastDay>>

LedgerFinish ==
    /\ pc = "loop"
    /\ idx > Len(weeks)
    /\ pc' = "done"
    /\ UNCHANGED <<pureVars, variant, today, months_back, provider, disk, weeks, idx, labels,
                   headers, df_week, sheet_i, mem, dfile, df_today, df_yday, runs,
                   shifts, snap, prev, fetched, failedAt, sameDay,
                   lastDay>>

\* the process is killed
LedgerCrash ==
    /\ pc \in {"loop", "write", "saving"}
    /\ pc' = "crashed"
    /\ UNCHANGED <<pureVars, variant, today, months_back, provider, disk, weeks, idx, labels,
                   headers, df_week, sheet_i, mem, dfile, df_today, df_yday, runs,
                   shifts, snap, prev, fetched, failedAt, sameDay,
                   lastDay>>

LedgerNext ==
    \/ LedgerStart
    \/ LedgerStartCorrupt
    \/ LedgerSkip
    \/ LedgerFetch
    \/ LedgerFetchFail
    \/ LedgerWrite
    \/ LedgerSaved
    \/ LedgerFinish
    \/ LedgerCrash
    \/ NewDay

LedgerSpec == Init /\ [][LedgerNext]_vars

-----------------------------------------------------------------------------
(* DailyRotator: daily_summary_orders_to_excel / daily_summary_orders_into_excel *)

\* sheet_name of the daily job
DailySheet == "Napokra bontva"

\* mutant: the header is taken from today's records alone
DailyHeaderCols_today(v, dft, dfy) ==
    IF Len(dft.cols) = 0 THEN <<0>> ELSE dft.cols

\* header_cols of the daily job: the longer column list (unas), the sorted
\* union of both column sets or ["info"] (pop)
DailyHeaderCols(v, dft, dfy) ==
    IF v = "unas"
    THEN IF Len(dft.cols) >= Len(dfy.cols) THEN dft.cols ELSE dfy.cols
    ELSE IF Range(dft.cols) \cup Range(dfy.cols) = {} THEN <<0>>
         ELSE SortedSeq(Range(dft.cols) \cup Range(dfy.cols))

DailyStart ==
    /\ pc \in Ended
    /\ runs < MaxRuns
    /\ runs' = runs + 1
    /\ prev' = pc
    /\ pc' = "d_fetch"
    /\ snap' = dfile
    /\ sameDay' = (runs > 0 /\ lastDay = today)
    /\ lastDay' = today
    /\ df_today' = NoFrame
    /\ df_yday' = NoFrame
    /\ mem' = NoSheets
    /\ fetched' = {}
    /\ failedAt' = 0
    /\ UNCHANGED <<pureVars, variant, today, months_back, provider, disk, weeks, idx, labels,
                   headers, df_week, sheet_i, dfile, shifts>>

\* both fetches return; the frames are built (and, pop, reindexed)
DailyFetch ==
    /\ pc = "d_fetch"
    /\ LET dft == ToFrame(variant, OrdersBetween(provider, today, today))
           dfy == ToFrame(variant, OrdersBetween(provider, today - 1, today - 1))
           header_cols == DailyHeaderCols(variant, dft, dfy)
       IN  /\ df_today' = IF variant = "unas" THEN dft ELSE Reindex(dft, header_cols)
           /\ df_yday' = IF variant = "unas" THEN dfy ELSE Reindex(dfy, header_cols)
    /\ pc' = "d_init"
    /\ UNCHANGED <<pureVars, variant, today, months_back, provider, disk, weeks, idx, labels,
                   headers, df_week, sheet_i, mem, dfile, runs, shifts, snap,
                   prev, fetched, failedAt, sameDay, lastDay>>

\* a fetch that raises after the yesterday segment was deleted
DailyFetchFail_late ==
    /\ pc = "d_prep_y"
    /\ pc' = "d_failed"
    /\ UNCHANGED <<pureVars, variant, today, months_back, provider, disk, weeks, idx, labels,
                   headers, df_week, sheet_i, mem, dfile, df_today, df_yday, runs,
                   shifts, snap, prev, fetched, failedAt, sameDay, lastDay>>

\* a fetch raises: nothing catches it, the run ends
DailyFetchFail ==
    /\ pc = "d_fetch"
    /\ pc' = "d_failed"
    /\ UNCHANGED <<pureVars, variant, today, months_back, provider, disk, weeks, idx, labels,
                   headers, df_week, sheet_i, mem, dfile, df_today, df_yday, runs,
                   shifts, snap, prev, fetched, failedAt, sameDay, lastDay>>

\* _open_or_init_wb_with_header(output_path, sheet_name, header_cols)[0].save(output_path)
DailyInit ==
    /\ pc = "d_init"
    /\ dfile.st # "partial"
    /\ mem' = _open_or_init_wb_with_header(dfile, DailySheet,
                                           DailyHeaderCols(variant, df_today, df_yday))
    /\ dfile' = [st |-> "partial", wb |-> NoSheets]
    /\ pc' = "d_save1"
    /\ UNCHANGED <<pureVars, variant, today, months_back, provider, disk, weeks, idx, labels,
                   headers, df_week, sheet_i, df_today, df_yday, runs, shifts,
                   snap, prev, fetched, failedAt, sameDay, lastDay>>

\* load_workbook(xlsx_path) raises on a file that is not a complete workbook
DailyCorrupt ==
    /\ pc = "d_init"
    /\ dfile.st = "partial"
    /\ pc' = "d_failed"
    /\ UNCHANGED <<pureVars, variant, today, months_back, provider, disk, weeks, idx, labels,
                   headers, df_week, sheet_i, mem, dfile, df_today, df_yday, runs,
                   shifts, snap, prev, fetched, failedAt, sameDay, lastDay>>

\* wb.save(xlsx_path) has written the whole file
DailySaved ==
    /\ pc \in {"d_save1", "d_save2", "d_save3", "d_save4"}
    /\ dfile' = [st |-> "ok", wb |-> mem]
    /\ pc' = CASE pc = "d_save1" -> "d_delete"
               [] pc = "d_save2" -> "d_prep_y"
               [] pc = "d_save3" -> "d_prep_t"
               [] OTHER -> "d_done"
    /\ UNCHANGED <<pureVars, variant, today, months_back, provider, disk, weeks, idx, labels,
                   headers, df_week, sheet_i, mem, df_today, df_yday, runs, shifts,
                   snap, prev, fetched, failedAt, sameDay, lastDay>>

\* delete_batch_by_label(output_path, sheet_name, yday_str, header_cols) up to wb.save
DailyDelete ==
    /\ pc = "d_delete"
    /\ LET wb == _open_or_init_wb_with_header(dfile, DailySheet,
                                              DailyHeaderCols(variant, df_today, df_yday))
       IN  mem' = [wb EXCEPT ![DailySheet] = DeleteRows(@, today - 1)]
    /\ dfile' = [st |-> "partial", wb |-> NoSheets]
    /\ pc' = "d_save2"
    /\ UNCHANGED <<pureVars, variant, today, months_back, provider, disk, weeks, idx, labels,
                   headers, df_week, sheet_i, df_today, df_yday, runs, shifts,
                   snap, prev, fetched, failedAt, sameDay, lastDay>>

\* prepend_batch_to_excel(df_yday, ..., batch_label=yday_str, ...) up to wb.save
DailyPrependYday ==
    /\ pc = "d_prep_y"
    /\ LET wb == _open_or_init_wb_with_header(dfile, DailySheet, df_yday.cols)
       IN  mem' = [wb EXCEPT ![DailySheet] =
                      PrependRows(variant, @, df_yday, today - 1, SpacerRows)]
    /\ dfile' = [st |-> "partial", wb |-> NoSheets]
    /\ pc' = "d_save3"
    /\ UNCHANGED <<pureVars, variant, today, months_back, provider, disk, weeks, idx, labels,
                   headers, df_week, sheet_i, df_today, df_yday, runs, shifts,
                   snap, prev, fetched, failedAt, sameDay, lastDay>>

\* prepend_batch_to_excel(df_today, ..., batch_label=today_str, ...) up to wb.save
DailyPrependToday ==
    /\ pc = "d_prep_t"
    /\ LET wb == _open_or_init_wb_with_header(dfile, DailySheet, df_today.cols)
       IN  mem' = [wb EXCEPT ![DailySheet] =
                      PrependRows(variant, @, df_today, today, SpacerRows)]
    /\ dfile' = [st |-> "partial", wb |-> NoSheets]
    /\ pc' = "d_save4"
    /\ UNCHANGED <<pureVars, variant, today, months_back, provider, disk, weeks, idx, labels,
                   headers, df_week, sheet_i, df_today, df_yday, runs, shifts,
                   snap, prev, fetched, failedAt, sameDay, lastDay>>

\* the process is killed
DailyCrash ==
    /\ pc \in {"d_fetch", "d_init", "d_save1", "d_delete", "d_save2", "d_prep_y",
               "d_save3", "d_prep_t", "d_save4"}
    /\ pc' = "d_crashed"
    /\ UNCHANGED <<pureVars, variant, today, months_back, provider, disk, weeks, idx, labels,
                   headers, df_week, sheet_i, mem, dfile, df_today, df_yday, runs,
                   shifts, snap, prev, fetched, failedAt, sameDay, lastDay>>

RotatorNext ==
    \/ DailyStart
    \/ DailyFetch
    \/ DailyFetchFail
    \/ DailyInit
    \/ DailyCorrupt
    \/ DailySaved
    \/ DailyDelete
    \/ DailyPrependYday
    \/ DailyPrependToday
    \/ DailyCrash
    \/ NewDay

RotatorSpec == Init /\ [][RotatorNext]_vars

\* the daily job with a provider that holds an order of MarkerTextOrders
MarkerTextInit ==
    /\ variant \in {"unas", "pop"}
    /\ today \in TodayChoices
    /\ months_back = 0
    /\ provider \in {P \cup MarkerTextOrders : P \in SUBSET CandidateOrders}
    /\ disk = NoFile
    /\ dfile = NoFile
    /\ pc = "idle"
    /\ weeks = <<>>
    /\ idx = 0
    /\ labels = NoLabels
    /\ headers = NoSheets
    /\ df_week = NoFrame
    /\ sheet_i = 0
    /\ mem = NoSheets
    /\ df_today = NoFrame
    /\ df_yday = NoFrame
    /\ runs = 0
    /\ shifts = 0
    /\ snap = NoFile
    /\ prev = "none"
    /\ fetched = {}
    /\ failedAt = 0
    /\ sameDay = FALSE
    /\ lastDay = 0
    /\ est_df = NoEstFrame
    /\ est_count = -1
    /\ call = NoCall
    /\ ret = NoCall

MarkerTextSpec == MarkerTextInit /\ [][RotatorNext]_vars

-----------------------------------------------------------------------------
(* UniqueKeyEstimator: estimate_unique_order_count (popfanatic_actions.py)  *)
(* A frame is [cols, rows]: the column names in order and, per row, the     *)
(* values in column order. A value is <<"int", n>>, <<"str", n>> (the text  *)
(* of the digits of n) or <<"nan", 0>> (the record has no such field).      *)

\* the most columns a frame of the estimator has
MaxEstCols == 2

\* the most rows a frame of the estimator has
MaxEstRows == 2

\* the column names a frame may have
EstColumnNames == {"InnerID", "id", "ref_id", "customer.id", "total"}

EstValues == { <<"int", 1>>, <<"str", 1>>, <<"nan", 0>> }

PRIORITY_ID_FIELDS ==
    << "innerId", "id", "order.id", "orderId", "order_id", "number",
       "incrementId", "code", "Order_Id", "Order_Key" >>

EXCLUDE_ID_KEYWORDS ==
    { "customer", "buyer", "user", "address", "billing", "shipping",
      "product", "item", "line", "sku", "variant" }

\* str.lower() on the names in use
lower(c) ==
    CASE c = "InnerID" -> "innerid"
      [] c = "innerId" -> "innerid"
      [] c = "orderId" -> "orderid"
      [] c = "incrementId" -> "incrementid"
      [] c = "Order_Id" -> "order_id"
      [] c = "Order_Key" -> "order_key"
      [] OTHER -> c

\* k in lc, for the lowercase names in use
contains(lc, k) == <<lc, k>> \in { <<"customer.id", "customer">> }

\* lc.endswith("id") or lc.endswith(".id") or lc.endswith("_id")
ends_with_id(lc) == lc \in {"innerid", "id", "ref_id", "customer.id", "orderid",
                            "order.id", "order_id", "incrementid"}

\* str(n)
digits(n) == CASE n = 0 -> "0" [] n = 1 -> "1" [] n = 2 -> "2" [] OTHER -> "9"

\* astype(str) on one value: a missing value becomes the text "nan"
astype_str(v) == IF v[1] = "nan" THEN "nan" ELSE digits(v[2])

\* df.empty
df_empty(df) == Len(df.cols) = 0 \/ Len(df.rows) = 0

\* df[c]
Column(df, c) ==
    LET j == CHOOSE q \in 1..Len(df.cols) : df.cols[q] = c
    IN  [i \in 1..Len(df.rows) |-> df.rows[i][j]]

\* mutant: the rows are counted in place of the distinct values
count_rows(df, c) == Len(df.rows)

\* pd.Series(df[c]).astype(str).nunique(dropna=True)
nunique_str(df, c) ==
    Cardinality({ astype_str(Column(df, c)[i]) : i \in 1..Len(df.rows) })

\* {c.lower(): c for c in cols}: a later column replaces an earlier one
lowered(df) ==
    [l \in {lower(df.cols[j]) : j \in 1..Len(df.cols)} |->
        df.cols[CHOOSE j \in 1..Len(df.cols) :
                    /\ lower(df.cols[j]) = l
                    /\ \A q \in 1..Len(df.cols) : lower(df.cols[q]) = l => q <= j]]

estimate_unique_order_count(df) ==
    IF df_empty(df) THEN 0
    ELSE IF "innerid" \in DOMAIN lowered(df)
    THEN nunique_str(df, lowered(df)["innerid"])
    ELSE LET known == {p \in 1..Len(PRIORITY_ID_FIELDS) :
                          lower(PRIORITY_ID_FIELDS[p]) \in DOMAIN lowered(df)}
         IN  IF known # {}
             THEN LET p == CHOOSE x \in known : \A y \in known : x <= y
                  IN  nunique_str(df, lowered(df)[lower(PRIORITY_ID_FIELDS[p])])
             ELSE LET candidates ==
                          { <<nunique_str(df, c), c>> :
                              c \in {x \in Range(df.cols) :
                                       /\ \A k \in EXCLUDE_ID_KEYWORDS : ~contains(lower(x), k)
                                       /\ ends_with_id(lower(x))} }
                  IN  IF candidates # {}
                      THEN (CHOOSE x \in candidates : \A y \in candidates : y[1] <= x[1])[1]
                      ELSE Len(df.rows)

\* the sequences of at most n distinct column names
EstColumnSeqs(n) ==
    UNION { {cs \in [1..m -> EstColumnNames] : \A i, j \in 1..m : i # j => cs[i] # cs[j]} :
            m \in 0..n }

\* the frames of columns cs and r rows the estimator is called with
EstFrames(cs, r) ==
    { [cols |-> cs, rows |-> rs] : rs \in [1..r -> [1..Len(cs) -> EstValues]] }

EstInit ==
    /\ variant = "pop"
    /\ today = 67
    /\ months_back = 0
    /\ provider = {}
    /\ disk = NoFile
    /\ dfile = NoFile
    /\ pc = "idle"
    /\ weeks = <<>>
    /\ idx = 0
    /\ labels = NoLabels
    /\ headers = NoSheets
    /\ df_week = NoFrame
    /\ sheet_i = 0
    /\ mem = NoSheets
    /\ df_today = NoFrame
    /\ df_yday = NoFrame
    /\ runs = 0
    /\ shifts = 0
    /\ snap = NoFile
    /\ prev = "none"
    /\ fetched = {}
    /\ failedAt = 0
    /\ sameDay = FALSE
    /\ lastDay = 0
    /\ \E cs \in EstColumnSeqs(MaxEstCols), r \in 0..MaxEstRows :
          est_df \in EstFrames(cs, r)
    /\ est_count = -1
    /\ call = NoCall
    /\ ret = NoCall

\* orders_count = estimate_unique_order_count(df)
EstimateCall ==
    /\ est_count = -1
    /\ est_count' = estimate_unique_order_count(est_df)
    /\ UNCHANGED <<variant, today, months_back, provider, disk, pc, weeks, idx,
                   labels, headers, df_week, sheet_i, mem, dfile, df_today,
                   df_yday, runs, shifts, snap, prev, fetched, failedAt, sameDay,
                   lastDay, est_df, call, ret>>

EstimatorNext == EstimateCall

EstimatorSpec == EstInit /\ [][EstimatorNext]_vars

-----------------------------------------------------------------------------
(* LedgerSync over the range 2025-09-01..2025-10-20: months_back = 1 and    *)
(* date.today() = 2025-10-20 (day 84), after runs on 2025-10-12 (day 76).   *)
(* The weeks of the range are 35-41, 42-48, 49-55, 56-62 (September),       *)
(* 63-69 (2025.09.29-2025.10.05), 70-76 (2025.10.06-2025.10.12),            *)
(* 77-83 (2025.10.13-2025.10.19) and 84-84 (2025.10.20-2025.10.20).         *)

\* the orders the provider may hold: one per week 1, 5, 6, 7 and 8
ScenarioAOrders ==
    { [id |-> 1, day |-> 40, flds |-> {1, 2}],
      [id |-> 2, day |-> 65, flds |-> {1, 2}],
      [id |-> 3, day |-> 72, flds |-> {1, 3}],
      [id |-> 4, day |-> 78, flds |-> {1, 2}],
      [id |-> 5, day |-> 84, flds |-> {1, 2, 3}] }

ScenarioAInit ==
    /\ variant \in {"unas", "pop"}
    /\ today = 76
    /\ months_back = 1
    /\ provider \in SUBSET ScenarioAOrders
    /\ disk = NoFile
    /\ dfile = NoFile
    /\ pc = "idle"
    /\ weeks = <<>>
    /\ idx = 0
    /\ labels = NoLabels
    /\ headers = NoSheets
    /\ df_week = NoFrame
    /\ sheet_i = 0
    /\ mem = NoSheets
    /\ df_today = NoFrame
    /\ df_yday = NoFrame
    /\ runs = 0
    /\ shifts = 0
    /\ snap = NoFile
    /\ prev = "none"
    /\ fetched = {}
    /\ failedAt = 0
    /\ sameDay = FALSE
    /\ lastDay = 0
    /\ est_df = NoEstFrame
    /\ est_count = -1
    /\ call = NoCall
    /\ ret = NoCall

\* the calendar moves from 2025-10-12 to 2025-10-20 between two runs
ScenarioADay ==
    /\ pc \in Ended
    /\ today = 76
    /\ today' = 84
    /\ UNCHANGED <<pureVars, variant, months_back, provider, disk, pc, weeks, idx,
                   labels, headers, df_week, sheet_i, mem, dfile, df_today,
                   df_yday, runs, shifts, snap, prev, fetched, failedAt, sameDay,
                   lastDay>>

ScenarioANext ==
    \/ LedgerStart
    \/ LedgerStartCorrupt
    \/ LedgerSkip
    \/ LedgerFetch
    \/ LedgerFetchFail
    \/ LedgerWrite
    \/ LedgerSaved
    \/ LedgerFinish
    \/ LedgerCrash
    \/ ScenarioADay

ScenarioASpec == ScenarioAInit /\ [][ScenarioANext]_vars

-----------------------------------------------------------------------------
(* The helper functions on their own: no job runs *)

JobsIdle ==
    /\ variant = "unas"
    /\ today = 67
    /\ months_back = 0
    /\ provider = {}
    /\ disk = NoFile
    /\ dfile = NoFile
    /\ pc = "idle"
    /\ weeks = <<>>
    /\ idx = 0
    /\ labels = NoLabels
    /\ headers = NoSheets
    /\ df_week = NoFrame
    /\ sheet_i = 0
    /\ mem = NoSheets
    /\ df_today = NoFrame
    /\ df_yday = NoFrame
    /\ runs = 0
    /\ shifts = 0
    /\ snap = NoFile
    /\ prev = "none"
    /\ fetched = {}
    /\ failedAt = 0
    /\ sameDay = FALSE
    /\ lastDay = 0
    /\ est_df = NoEstFrame
    /\ est_count = -1

jobVars == <<variant, today, months_back, provider, disk, pc, weeks, idx, labels,
             headers, df_week, sheet_i, mem, dfile, df_today, df_yday, runs,
             shifts, snap, prev, fetched, failedAt, sameDay, lastDay,
             est_df, est_count>>

-----------------------------------------------------------------------------
(* weekly_ranges_between, statement by statement *)

\* start_dt is one of the first MaxStartOffset + 1 days of the calendar
MaxStartOffset == 8

\* end_dt is at most MaxSpan days after start_dt
MaxSpan == 16

PartitionCalls ==
    { [fn |-> "weekly_ranges_between", start_dt |-> s, end_dt |-> e] :
        s \in Months[1].first..(Months[1].first + MaxStartOffset),
        e \in Months[1].first..(Months[1].first + MaxStartOffset + MaxSpan) }

PartitionInit ==
    /\ JobsIdle
    /\ call \in {c \in PartitionCalls :
                    c.start_dt <= c.end_dt /\ c.end_dt <= c.start_dt + MaxSpan}
    /\ ret = NoCall

\* first_monday = ...; ranges = []; cur_start = first_monday
PartitionEnter ==
    /\ ret = NoCall
    /\ ret' = [fn |-> "loop",
               cur_start |-> call.start_dt - weekday(call.start_dt),
               ranges |-> <<>>]
    /\ UNCHANGED <<jobVars, call>>

\* one pass of "while cur_start <= end_dt"
PartitionLoop ==
    /\ ret.fn = "loop"
    /\ ret.cur_start <= call.end_dt
    /\ LET cur_end == ret.cur_start + 6
           s == Max(ret.cur_start, call.start_dt)
           e == Min(cur_end, call.end_dt)
       IN  ret' = [ret EXCEPT !.ranges = Append(@, <<s, e>>),
                              !.cur_start = @ + 7]
    /\ UNCHANGED <<jobVars, call>>

\* return ranges
PartitionReturn ==
    /\ ret.fn = "loop"
    /\ ret.cur_start > call.end_dt
    /\ ret' = [ret EXCEPT !.fn = "returned"]
    /\ UNCHANGED <<jobVars, call>>

PartitionNext ==
    \/ PartitionEnter
    \/ PartitionLoop
    \/ PartitionReturn

\* the function runs to its end once it is called
PartitionSpec == PartitionInit /\ [][PartitionNext]_vars /\ WF_vars(PartitionNext)

-----------------------------------------------------------------------------
(* df_week.reindex(columns=header_cols) and the rows written from it *)

\* a frame has at most MaxReindexRecs records
MaxReindexRecs == 2

\* a header has at most MaxHeaderLen columns
MaxHeaderLen == 3

\* the field names of ORDER_COLUMNS and one name no record has
ReindexFields == Range(ORDER_COLUMNS) \cup {Len(ORDER_COLUMNS) + 1}

\* the records [id, day, flds] a fetched frame may hold in row i
ReindexRecords(v, i) ==
    { [id |-> i, day |-> 67, flds |-> F] :
        F \in IF v = "unas" THEN {Range(ORDER_COLUMNS)}
              ELSE SUBSET Range(ORDER_COLUMNS) \ {{}} }

\* the frames xml_string_to_dataframe / details_to_dataframe may build
ReindexFrames(v) ==
    UNION { { ToFrame(v, recs) :
                recs \in {r \in [1..n -> UNION {ReindexRecords(v, i) : i \in 1..n}] :
                              \A i \in 1..n : r[i].id = i} } :
            n \in 0..MaxReindexRecs }

\* the headers a sheet may have: distinct field names in any order
ReindexHeaders ==
    UNION { {h \in [1..n -> ReindexFields] : \A i, j \in 1..n : i # j => h[i] # h[j]} :
            n \in 1..MaxHeaderLen }

ReindexInit ==
    /\ JobsIdle
    /\ \E v \in {"unas", "pop"} :
          call \in { [fn |-> "reindex", v |-> v, df |-> df, header_cols |-> h] :
                       df \in ReindexFrames(v), h \in ReindexHeaders }
    /\ ret = NoCall

\* df_aligned = df_week.reindex(columns=header_cols, ...) and the rows
\* dataframe_to_rows(df_aligned, index=False, header=False) yields
ReindexCall ==
    /\ call.fn = "reindex"
    /\ ret = NoCall
    /\ LET df_aligned == Reindex(call.df, call.header_cols)
       IN  ret' = [fn |-> "returned",
                   df_aligned |-> df_aligned,
                   rows |-> [i \in 1..Len(df_aligned.recs) |->
                                DataRow(call.v, df_aligned.recs[i], df_aligned.cols)]]
    /\ UNCHANGED <<jobVars, call>>

ReindexNext == ReindexCall

ReindexSpec == ReindexInit /\ [][ReindexNext]_vars

-----------------------------------------------------------------------------
(* _find_batch_bounds, delete_batch_by_label and prepend_batch_to_excel on  *)
(* any sheet                                                                *)

\* a sheet has at most MaxSheetRows rows below its header
MaxSheetRows == 3

\* spacer_rows is at most MaxSpacerArg
MaxSpacerArg == 2

\* the labels a call may ask for: 66 = 2025-10-01, 67 = 2025-10-02, and one
\* that can be on no sheet
OpLabels == {66, 67, 68}

\* the orders of the frames a batch is written from
OpOrders ==
    << [id |-> 7, day |-> 68, flds |-> {1, 2, 3}],
       [id |-> 8, day |-> 68, flds |-> {1, 2}] >>

\* the rows a sheet may hold below its header: Day markers of two days, a
\* Week marker, a data row, a summary row and a row without cells
OpRowChoices ==
    { <<DayMarker(66)>>, <<DayMarker(67)>>, <<WeekMarker(<<63, 69>>)>>,
      DataRow("unas", [id |-> 9, day |-> 66, flds |-> {1, 2, 3}], ORDER_COLUMNS),
      << <<"sumD", 0, 0>>, <<"int", 1, 0>> >>,
      <<>> }

\* the sheets: the header row and at most MaxSheetRows rows, the last row
\* holding a cell (ws.max_row)
OpSheets ==
    UNION { { <<HeaderRow(ORDER_COLUMNS)>> \o body :
                body \in {b \in [1..n -> OpRowChoices] : n > 0 => b[n] # <<>>} } :
            n \in 0..MaxSheetRows }

OpCalls ==
    { [fn |-> f, rows |-> rows, label |-> l, df |-> NoFrame, spacer_rows |-> 0] :
        f \in {"_find_batch_bounds", "delete_batch_by_label"},
        rows \in OpSheets, l \in OpLabels }
    \cup
    { [fn |-> "prepend_batch_to_excel", rows |-> rows, label |-> 68,
       df |-> ToFrame("unas", SubSeq(OpOrders, 1, n)), spacer_rows |-> sp] :
        rows \in OpSheets, n \in 0..Len(OpOrders), sp \in 0..MaxSpacerArg }

SheetOpsInit ==
    /\ JobsIdle
    /\ call \in OpCalls
    /\ ret = NoCall

\* bounds = _find_batch_bounds(ws, label)
FindBoundsCall ==
    /\ call.fn = "_find_batch_bounds"
    /\ ret = NoCall
    /\ ret' = [fn |-> "returned", bounds |-> _find_batch_bounds(call.rows, call.label)]
    /\ UNCHANGED <<jobVars, call>>

\* delete_batch_by_label(xlsx_path, sheet_name, label, header_cols) on an existing sheet
DeleteBatchCall ==
    /\ call.fn = "delete_batch_by_label"
    /\ ret = NoCall
    /\ LET r == delete_batch_by_label(call.rows, call.label)
       IN  ret' = [fn |-> "returned", rows |-> r.rows, deleted |-> r.deleted]
    /\ UNCHANGED <<jobVars, call>>

\* prepend_batch_to_excel(df, xlsx_path, batch_label, sheet_name, spacer_rows)
\* on an existing sheet
PrependBatchCall ==
    /\ call.fn = "prepend_batch_to_excel"
    /\ ret = NoCall
    /\ ret' = [fn |-> "returned",
               rows |-> PrependRows("unas", call.rows, call.df, call.label,
                                    call.spacer_rows)]
    /\ UNCHANGED <<jobVars, call>>

SheetOpsNext ==
    \/ FindBoundsCall
    \/ DeleteBatchCall
    \/ PrependBatchCall

SheetOpsSpec == SheetOpsInit /\ [][SheetOpsNext]_vars

-----------------------------------------------------------------------------
(* _open_or_init_wb_with_header on any file *)

\* a sheet of the file holds at most MaxOpenRows rows below its header
MaxOpenRows == 1

\* the sheet names in use: 2025-09 and 2025-10
OpenSheetNames == {month_sheet_name(Months[2].first), month_sheet_name(Months[3].first)}

\* the header_cols a caller may pass
OpenHeaders == {ORDER_COLUMNS, SubSeq(ORDER_COLUMNS, 1, 2), <<3, 1>>}

\* the sheets a file may hold: a header and at most MaxOpenRows rows
OpenSheets ==
    UNION { { <<HeaderRow(h)>> \o body :
                h \in OpenHeaders,
                body \in {b \in [1..n -> OpRowChoices] : n > 0 => b[n] # <<>>} } :
            n \in 0..MaxOpenRows }

\* no file, or a file with one or two sheets
OpenFiles ==
    {NoFile} \cup
    UNION { { [st |-> "ok", wb |-> wb] : wb \in [N -> OpenSheets] } :
            N \in SUBSET OpenSheetNames \ {{}} }

OpenInit ==
    /\ JobsIdle
    /\ call \in { [fn |-> "_open_or_init_wb_with_header", d |-> d,
                    sheet_name |-> n, header_cols |-> h] :
                     d \in OpenFiles, n \in OpenSheetNames, h \in OpenHeaders }
    /\ ret = NoCall

\* wb, ws = _open_or_init_wb_with_header(xlsx_path, sheet_name, header_cols)
OpenCall ==
    /\ call.fn = "_open_or_init_wb_with_header"
    /\ ret = NoCall
    /\ ret' = [fn |-> "returned",
               wb |-> _open_or_init_wb_with_header(call.d, call.sheet_name,
                                                   call.header_cols)]
    /\ UNCHANGED <<jobVars, call>>

\* the caller saves wb, and the function is called on the file again, with
\* the same sheet name and any header
OpenAgain ==
    /\ ret.fn = "returned"
    /\ \E h \in OpenHeaders :
          ret' = [fn |-> "again",
                  wb |-> ret.wb,
                  header_cols |-> h,
                  wb2 |-> _open_or_init_wb_with_header([st |-> "ok", wb |-> ret.wb],
                                                       call.sheet_name, h)]
    /\ UNCHANGED <<jobVars, call>>

OpenNext ==
    \/ OpenCall
    \/ OpenAgain

OpenSpec == OpenInit /\ [][OpenNext]_vars

-----------------------------------------------------------------------------
(* The network calls to the record provider: get_orders, get_order_by_id    *)
(* (popfanatic_actions.py) and unas_call (unas_helper.py)                   *)

\* for attempt in range(4)
MaxAttempts == 4

NetFns == {"get_orders", "get_order_by_id", "unas_call"}

\* the status codes a response may carry; 404 stands for the other errors
Statuses == {200, 404, 429, 500, 502, 503, 504}

TransientStatuses_any == Statuses \ {200}

\* if r.status_code in (429, 500, 502, 503, 504)
TransientStatuses == {429, 500, 502, 503, 504}

NetInit ==
    /\ JobsIdle
    /\ call \in {[fn |-> f] : f \in NetFns}
    /\ ret = NoCall

\* the call starts: no request has been sent
NetEnter ==
    /\ call.fn \in NetFns
    /\ ret = NoCall
    /\ ret' = [fn |-> "loop", attempt |-> 0, seen |-> <<>>]
    /\ UNCHANGED <<jobVars, call>>

\* one requests.get / requests.post and what the function does with the
\* response: unas_call raises on every error status (raise_for_status), the
\* popfanatic calls go on with the next attempt after a transient status
NetResponse ==
    /\ ret.fn = "loop"
    /\ ret.attempt < MaxAttempts
    /\ \E status_code \in Statuses :
          ret' = [fn |-> IF status_code = 200 THEN "returned"
                         ELSE IF call.fn # "unas_call" /\ status_code \in TransientStatuses
                              THEN "loop"
                              ELSE "raised",
                  attempt |-> ret.attempt + 1,
                  seen |-> Append(ret.seen, status_code)]
    /\ UNCHANGED <<jobVars, call>>

\* raise RuntimeError("... retry limit exceeded")
NetGiveUp ==
    /\ ret.fn = "loop"
    /\ ret.attempt = MaxAttempts
    /\ ret' = [ret EXCEPT !.fn = "raised"]
    /\ UNCHANGED <<jobVars, call>>

NetNext ==
    \/ NetEnter
    \/ NetResponse
    \/ NetGiveUp

NetSpec == NetInit /\ [][NetNext]_vars


-----------------------------------------------------------------------------
(* get_all_orders and fetch_orders_between: the paging loops *)

\* batch_size / limit is at most PageSize
PageSize == 2

\* max_pages is at most MaxPagesArg
MaxPagesArg == 3

\* the requests of one call are recorded up to the MaxTracked-th
MaxTracked == 3

\* the orders a page may hold
PageItems == {1, 2}

PageFns == {"get_all_orders", "fetch_orders_between"}

\* the pages the provider may answer a request of limit n with
PagesOf(n) == UNION { [1..k -> PageItems] : k \in 0..n }

PageInit ==
    /\ JobsIdle
    /\ call \in { [fn |-> f, batch_size |-> b, max_pages |-> m] :
                    f \in PageFns, b \in 1..PageSize, m \in 1..MaxPagesArg }
    /\ ret = NoCall

\* start = 0, pages = 0, combined_chunks = [] / page = 0, collected = []
PageEnter ==
    /\ call.fn \in PageFns
    /\ ret = NoCall
    /\ ret' = [fn |-> "loop", pages |-> 0, offsets |-> <<>>, got |-> <<>>,
               collected |-> <<>>, tick |-> 0]
    /\ UNCHANGED <<jobVars, call>>

\* the offset of the next request: LimitStart = start, or page
NextOffset ==
    IF call.fn = "get_all_orders" THEN ret.pages * call.batch_size ELSE ret.pages

\* one iteration of get_all_orders: the chunk is kept when it has an order,
\* the loop ends on a short page or at max_pages
GetAllOrdersPage ==
    /\ call.fn = "get_all_orders"
    /\ ret.fn = "loop"
    /\ \E page \in PagesOf(call.batch_size) :
          LET count == Len(page)
              pages == ret.pages + 1
          IN  ret' = [fn |-> IF count < call.batch_size \/ pages >= call.max_pages
                             THEN "returned" ELSE "loop",
                      pages |-> pages,
                      offsets |-> Append(ret.offsets, NextOffset),
                      got |-> Append(ret.got, page),
                      collected |-> IF count > 0 THEN ret.collected \o page
                                    ELSE ret.collected,
                      tick |-> 0]
    /\ UNCHANGED <<jobVars, call>>

\* one iteration of fetch_orders_between: the loop ends on an empty or a
\* short page and on nothing else. Requests after the MaxTracked-th are not
\* recorded; tick is 0 while all are, and tells one later iteration from
\* the next.
FetchOrdersBetweenPage ==
    /\ call.fn = "fetch_orders_between"
    /\ ret.fn = "loop"
    /\ \E items \in PagesOf(call.batch_size) :
          LET tracked == ret.pages < MaxTracked
          IN  ret' = [fn |-> IF Len(items) = 0 \/ Len(items) < call.batch_size
                             THEN "returned" ELSE "loop",
                      pages |-> IF tracked THEN ret.pages + 1 ELSE ret.pages,
                      offsets |-> IF tracked THEN Append(ret.offsets, NextOffset)
                                  ELSE ret.offsets,
                      got |-> IF tracked THEN Append(ret.got, items) ELSE ret.got,
                      collected |-> IF tracked THEN ret.collected \o items
                                    ELSE ret.collected,
                      tick |-> IF tracked THEN 0 ELSE IF ret.tick = 1 THEN 2 ELSE 1]
    /\ UNCHANGED <<jobVars, call>>

\* unas_call / get_orders raises: the error leaves the loop
PageRaise ==
    /\ call.fn \in PageFns
    /\ ret.fn = "loop"
    /\ ret' = [ret EXCEPT !.fn = "raised"]
    /\ UNCHANGED <<jobVars, call>>

PageNext ==
    \/ PageEnter
    \/ GetAllOrdersPage
    \/ FetchOrdersBetweenPage
    \/ PageRaise

\* the interpreter goes on with the next statement while there is one
PageSpec == PageInit /\ [][PageNext]_vars /\ WF_vars(PageNext)


-----------------------------------------------------------------------------
(* sync_daily_summary_from_temp over a folder that gets day files *)

\* the folder gets the day files of at most MaxDayFiles days
MaxDayFiles == 3

\* a day file has at most MaxDayRows rows
MaxDayRows == 2

\* no daily-summary.xlsx
NoSummary == [st |-> "none", cols |-> <<>>]

\* summarize_orders_into_excel: the column named after the sheet of the day
\* file, holding the texts f"{x:.2f}" of the row count and of the revenue
\* (the revenue of a file is taken to be its row count), and the column ""
summarize_orders_into_excel(f) ==
    << [name |-> <<"day", f.day>>, vals |-> << <<"str", f.rows>>, <<"str", f.rows>> >>],
       [name |-> <<"", 0>>, vals |-> << <<"", 0>>, <<"", 0>> >>] >>

RECURSIVE ConcatDays(_, _)
\* pd.concat([all_data, col], axis=1) over the day files of days ds, in order
ConcatDays(files, ds) ==
    IF Len(ds) = 0 THEN <<>>
    ELSE summarize_orders_into_excel(CHOOSE f \in files : f.day = ds[1])
            \o ConcatDays(files, Tail(ds))

\* build_daily_summary_temp_df: the day files sorted by name
build_daily_summary_temp_df(files) ==
    ConcatDays(files, SortedSeq({f.day : f \in files}))

\* df.to_excel: a column named "" gets no header text, a text is a text
\* cell, a float a number cell, "" and NaN leave the cell without value
to_excel(df) ==
    [i \in 1..Len(df) |->
        [hdr |-> IF df[i].name[1] = "" THEN <<"blank", 0>> ELSE df[i].name,
         cells |-> [k \in 1..Len(df[i].vals) |->
                      CASE df[i].vals[k][1] = "str" -> <<"text", df[i].vals[k][2]>>
                        [] df[i].vals[k][1] = "float" -> <<"num", df[i].vals[k][2]>>
                        [] OTHER -> <<"blank", 0>>]]]

\* pd.read_excel(out_path, index_col=0): the column at file position i whose
\* header has no text is named "Unnamed: i", a column of texts that read as
\* numbers is a column of floats, a cell without value is NaN
read_excel(cols) ==
    [i \in 1..Len(cols) |->
        [name |-> IF cols[i].hdr[1] = "blank" THEN <<"Unnamed", i>> ELSE cols[i].hdr,
         vals |-> [k \in 1..Len(cols[i].cells) |->
                     IF cols[i].cells[k][1] = "blank" THEN <<"nan", 0>>
                     ELSE <<"float", cols[i].cells[k][2]>>]]]

\* the names of the columns of a frame
Names(df) == {df[i].name : i \in 1..Len(df)}

RECURSIVE MissingDays(_, _)
\* missing_days = [d for d in day_cols if d not in existing.columns]
MissingDays(temp_df, existing) ==
    IF Len(temp_df) = 0 THEN <<>>
    ELSE (IF temp_df[1].name[1] # "" /\ temp_df[1].name \notin Names(existing)
          THEN <<temp_df[1].name>> ELSE <<>>)
            \o MissingDays(Tail(temp_df), existing)

RECURSIVE ToAppend(_, _)
\* for each missing day temp_df[[d]] and a new spacer column ""
ToAppend(temp_df, missing) ==
    IF Len(missing) = 0 THEN <<>>
    ELSE SelectSeq(temp_df, LAMBDA c : c.name = missing[1])
            \o << [name |-> <<"", 0>>, vals |-> << <<"", 0>>, <<"", 0>> >>] >>
            \o ToAppend(temp_df, Tail(missing))

SummaryInit ==
    /\ JobsIdle
    /\ call = [fn |-> "sync_daily_summary_from_temp"]
    /\ ret = [fn |-> "idle", files |-> {}, out |-> NoSummary, before |-> NoSummary,
              had |-> {}, wrote |-> FALSE]

\* the today export leaves the day file of one more day in the folder
DayFileWritten ==
    /\ call.fn = "sync_daily_summary_from_temp"
    /\ \E d \in 1..MaxDayFiles, n \in 1..MaxDayRows :
          /\ \A f \in ret.files : f.day # d
          /\ ret' = [ret EXCEPT !.fn = "idle",
                                !.files = @ \cup {[day |-> d, rows |-> n]}]
    /\ UNCHANGED <<jobVars, call>>

\* sync_daily_summary_from_temp(folder_path), for a folder with a day file
SyncDailySummary ==
    /\ call.fn = "sync_daily_summary_from_temp"
    /\ ret.files # {}
    /\ LET temp_df == build_daily_summary_temp_df(ret.files)
           existing == read_excel(ret.out.cols)
           missing_days == MissingDays(temp_df, existing)
           combined == existing \o ToAppend(temp_df, missing_days)
       IN  ret' = [fn |-> "synced",
                   files |-> ret.files,
                   before |-> ret.out,
                   had |-> {f \in ret.files : <<"day", f.day>> \in Names(existing)},
                   out |-> IF ret.out.st = "none"
                           THEN [st |-> "ok", cols |-> to_excel(temp_df)]
                           ELSE IF Len(missing_days) = 0 THEN ret.out
                           ELSE [st |-> "ok", cols |-> to_excel(combined)],
                   wrote |-> ret.out.st = "none" \/ Len(missing_days) > 0]
    /\ UNCHANGED <<jobVars, call>>

SummaryNext ==
    \/ DayFileWritten
    \/ SyncDailySummary

SummarySpec == SummaryInit /\ [][SummaryNext]_vars


-----------------------------------------------------------------------------
(* append_week_block and prepend_batch_to_excel on the frames the jobs pass *)

\* a frame has at most MaxCountRecs records
MaxCountRecs == 2

\* the fields a record may hold: all, no id field, the id field only, none
CountFlds == { {1, 2, 3}, {2, 3}, {1}, {} }

\* the records of a frame: two of them may be rows of one order
CountRecords == { [id |-> i, day |-> 67, flds |-> F] : i \in 1..2, F \in CountFlds }

\* the frame is the fetched one aligned to the header of the sheet
CountInit ==
    /\ JobsIdle
    /\ \E f \in {"append_week_block", "prepend_batch_to_excel"}, v \in {"unas", "pop"},
          n \in 0..MaxCountRecs, h \in ReindexHeaders :
          \E recs \in [1..n -> CountRecords] :
              call = [fn |-> f, v |-> v, rows |-> <<HeaderRow(h)>>,
                      df |-> Reindex(ToFrame(v, recs), h)]
    /\ ret = NoCall

\* append_week_block(ws, df_aligned, label, spacer_rows)
AppendBlockCall ==
    /\ call.fn = "append_week_block"
    /\ ret = NoCall
    /\ ret' = [fn |-> "returned",
               rows |-> append_week_block(call.v, call.rows, call.df, <<63, 69>>, SpacerRows)]
    /\ UNCHANGED <<jobVars, call>>

\* prepend_batch_to_excel(df, xlsx_path, batch_label, sheet_name, spacer_rows)
PrependBlockCall ==
    /\ call.fn = "prepend_batch_to_excel"
    /\ ret = NoCall
    /\ ret' = [fn |-> "returned",
               rows |-> PrependRows(call.v, call.rows, call.df, 67, SpacerRows)]
    /\ UNCHANGED <<jobVars, call>>

CountNext ==
    \/ AppendBlockCall
    \/ PrependBlockCall

CountSpec == CountInit /\ [][CountNext]_vars


-----------------------------------------------------------------------------
(* run.py: the pipeline of scripts *)

\* len(STEPS)
NSteps == 3

\* result.returncode: an exit code, or -N for a child ended by signal N
Signals == 1..31

ReturnCodes == (0..255) \cup { 0 - sig : sig \in Signals }

\* the exit status the operating system keeps of sys.exit(code)
ExitStatus(code) == code % 256

\* the scripts of STEPS that exist are an input
PipelineInit ==
    /\ JobsIdle
    /\ call \in { [fn |-> "main", exists |-> E] : E \in SUBSET (1..NSteps) }
    /\ ret = NoCall

\* logging.info("Starting automation pipeline ...")
PipelineEnter ==
    /\ call.fn = "main"
    /\ ret = NoCall
    /\ ret' = [fn |-> "loop", k |-> 1, started |-> <<>>, codes |-> <<>>,
               raised |-> FALSE, exit |-> -1, finished |-> FALSE]
    /\ UNCHANGED <<jobVars, call>>

\* run_step: if not script.exists(): sys.exit(1)
StepMissing ==
    /\ call.fn = "main"
    /\ ret.fn = "loop"
    /\ ret.k <= NSteps
    /\ ret.k \notin call.exists
    /\ ret' = [ret EXCEPT !.fn = "exited", !.exit = ExitStatus(1)]
    /\ UNCHANGED <<jobVars, call>>

\* mutant: a failed step is logged and the loop goes on
StepRun_continue ==
    /\ call.fn = "main"
    /\ ret.fn = "loop"
    /\ ret.k <= NSteps
    /\ ret.k \in call.exists
    /\ \E returncode \in ReturnCodes :
          ret' = [ret EXCEPT !.k = @ + 1,
                             !.started = Append(@, ret.k),
                             !.codes = Append(@, returncode)]
    /\ UNCHANGED <<jobVars, call>>

\* run_step: subprocess.run has returned; sys.exit(result.returncode) when
\* the code is not 0 (SystemExit is no Exception, the except clause lets it
\* pass)
StepRun ==
    /\ call.fn = "main"
    /\ ret.fn = "loop"
    /\ ret.k <= NSteps
    /\ ret.k \in call.exists
    /\ \E returncode \in ReturnCodes :
          ret' = [ret EXCEPT !.fn = IF returncode = 0 THEN "loop" ELSE "exited",
                             !.k = IF returncode = 0 THEN @ + 1 ELSE @,
                             !.started = Append(@, ret.k),
                             !.codes = Append(@, returncode),
                             !.exit = IF returncode = 0 THEN -1
                                      ELSE ExitStatus(returncode)]
    /\ UNCHANGED <<jobVars, call>>

\* run_step: subprocess.run raises (the child could not be started):
\* logging.exception, sys.exit(1)
StepRaises ==
    /\ call.fn = "main"
    /\ ret.fn = "loop"
    /\ ret.k <= NSteps
    /\ ret.k \in call.exists
    /\ ret' = [ret EXCEPT !.fn = "exited",
                          !.started = Append(@, ret.k),
                          !.raised = TRUE,
                          !.exit = ExitStatus(1)]
    /\ UNCHANGED <<jobVars, call>>

\* logging.info("ALL STEPS FINISHED SUCCESSFULLY"); the interpreter exits 0
PipelineFinish ==
    /\ call.fn = "main"
    /\ ret.fn = "loop"
    /\ ret.k = NSteps + 1
    /\ ret' = [ret EXCEPT !.fn = "exited", !.exit = 0, !.finished = TRUE]
    /\ UNCHANGED <<jobVars, call>>

PipelineNext ==
    \/ PipelineEnter
    \/ StepMissing
    \/ StepRun
    \/ StepRaises
    \/ PipelineFinish

PipelineSpec == PipelineInit /\ [][PipelineNext]_vars


-----------------------------------------------------------------------------
(* unas_actions.py: run_all_shops *)

\* the keys of the dict `shops`, in insertion order
ShopKeys ==
    <<"reflexshop", "okostojasjatek", "ordoglakatok", "tarsas",
      "tarsasjatekdiszkont", "tarsasjatekvasar", "jatekfarm",
      "tarsasjatekrendeles">>

ShopSet == { ShopKeys[i] : i \in 1..Len(ShopKeys) }

\* ShopBase.main: the methods it calls, in order
MainSteps ==
    <<"authenticate", "load_today_workbook", "load_daily_summary_workbook",
      "load_prev_months_workbook", "combine_outputs", "count_emails">>

\* ShopBase.__init__: self.workbook_json_path = '' (nothing assigns it again)
workbook_json_path == ""

\* open(path, "r") of the empty path raises FileNotFoundError
OpenRaises(path) == path = ""

\* the exclude list and the shops whose API key is in the environment
ShopsInit ==
    /\ JobsIdle
    /\ call \in { [fn |-> "run_all_shops", exclude_shop |-> ex, keyed |-> ky] :
                    ex \in SUBSET ShopSet,
                    ky \in {ShopSet} \cup { ShopSet \ {k} : k \in ShopSet } }
    /\ ret = NoCall

ShopsEnter ==
    /\ call.fn = "run_all_shops"
    /\ ret = NoCall
    /\ ret' = [fn |-> "loop", i |-> 1, step |-> 0, done |-> <<>>,
               skipped |-> <<>>, envfail |-> FALSE, end |-> "none"]
    /\ UNCHANGED <<jobVars, call>>

InShopLoop ==
    /\ call.fn = "run_all_shops"
    /\ ret.fn = "loop"
    /\ ret.end = "none"

\* else: print("==> Skipping ...")
ShopSkip ==
    /\ InShopLoop
    /\ ret.step = 0
    /\ ret.i <= Len(ShopKeys)
    /\ ShopKeys[ret.i] \in call.exclude_shop
    /\ ret' = [ret EXCEPT !.i = @ + 1, !.skipped = Append(@, ShopKeys[ret.i])]
    /\ UNCHANGED <<jobVars, call>>

\* if shop not in exclude_shop: print("==> Running ..."); main is entered
ShopStart ==
    /\ InShopLoop
    /\ ret.step = 0
    /\ ret.i <= Len(ShopKeys)
    /\ ShopKeys[ret.i] \notin call.exclude_shop
    /\ ret' = [ret EXCEPT !.step = 1]
    /\ UNCHANGED <<jobVars, call>>

\* authenticate: RuntimeError without an API key; unas_token may raise
Authenticate ==
    /\ InShopLoop
    /\ ret.step = 1
    /\ \E ok \in BOOLEAN :
          ret' = IF ShopKeys[ret.i] \in call.keyed /\ ok
                 THEN [ret EXCEPT !.step = 2]
                 ELSE [ret EXCEPT !.end = "raised", !.envfail = TRUE]
    /\ UNCHANGED <<jobVars, call>>

\* the three loaders and combine_outputs: each returns, or raises on a
\* failure of the network or of a file
LoadStep ==
    /\ InShopLoop
    /\ ret.step \in 2..5
    /\ \E ok \in BOOLEAN :
          ret' = IF ok
                 THEN [ret EXCEPT !.step = @ + 1]
                 ELSE [ret EXCEPT !.end = "raised", !.envfail = TRUE]
    /\ UNCHANGED <<jobVars, call>>

\* count_emails opens self.workbook_json_path; when it returns, main returns,
\* "Done" is printed and the loop goes to the next key
CountEmails ==
    /\ InShopLoop
    /\ ret.step = Len(MainSteps)
    /\ ret' = IF OpenRaises(workbook_json_path)
              THEN [ret EXCEPT !.end = "raised"]
              ELSE [ret EXCEPT !.step = 0, !.i = @ + 1,
                               !.done = Append(@, ShopKeys[ret.i])]
    /\ UNCHANGED <<jobVars, call>>

\* the keys are used up: run_all_shops returns
ShopsReturn ==
    /\ InShopLoop
    /\ ret.step = 0
    /\ ret.i = Len(ShopKeys) + 1
    /\ ret' = [ret EXCEPT !.end = "returned"]
    /\ UNCHANGED <<jobVars, call>>

ShopsNext ==
    \/ ShopsEnter
    \/ ShopSkip
    \/ ShopStart
    \/ Authenticate
    \/ LoadStep
    \/ CountEmails
    \/ ShopsReturn

ShopsSpec == ShopsInit /\ [][ShopsNext]_vars


-----------------------------------------------------------------------------
(* handle_excel.py: _atomic_write_xlsx *)

MaxXlsxRows == 2

\* cell values, in thousandths
XlsxValues == {1000, 1234, 1236}

XlsxFrames == UNION { [1..n -> XlsxValues] : n \in 0..MaxXlsxRows }

\* float_format="%.2f": a float is written with two decimals
Round2(v) == ((v + 5) \div 10) * 10

NoXlsx == [st |-> "none", rows |-> <<>>]

\* the file df.to_excel(path, float_format="%.2f") leaves when it returns
XlsxOf(df) == [st |-> "ok", rows |-> [i \in 1..Len(df) |-> Round2(df[i])]]

\* the target before the call: absent, or written by an earlier call
AtomicInit ==
    /\ JobsIdle
    /\ call \in { [fn |-> "_atomic_write_xlsx", df |-> d, prev |-> p] :
                    d \in XlsxFrames,
                    p \in {NoXlsx} \cup { XlsxOf(e) : e \in XlsxFrames } }
    /\ ret = NoCall

\* tempfile.mkstemp creates an empty file in the folder of the target, or
\* raises before the try block
Mkstemp ==
    /\ call.fn = "_atomic_write_xlsx"
    /\ ret = NoCall
    /\ \E ok \in BOOLEAN :
          ret' = IF ok
                 THEN [fn |-> "to_excel", target |-> call.prev,
                       tmp |-> [st |-> "empty", rows |-> <<>>],
                       failed |-> "none", left |-> FALSE]
                 ELSE [fn |-> "done", target |-> call.prev, tmp |-> NoXlsx,
                       failed |-> "mkstemp", left |-> FALSE]
    /\ UNCHANGED <<jobVars, call>>

\* mutant: the frame is written to out_path itself
ToExcelTmp_inplace ==
    /\ call.fn = "_atomic_write_xlsx"
    /\ ret.fn = "to_excel"
    /\ \/ ret' = [ret EXCEPT !.fn = "finally", !.target = XlsxOf(call.df),
                             !.tmp = NoXlsx]
       \/ \E k \in 0..Len(call.df) :
             ret' = [ret EXCEPT !.fn = "finally", !.failed = "to_excel",
                                !.target = [st |-> "partial",
                                            rows |-> SubSeq(XlsxOf(call.df).rows, 1, k)]]
    /\ UNCHANGED <<jobVars, call>>

\* df.to_excel(tmp_path, ...): the temporary file is written whole, or the
\* call raises and leaves a part of it
ToExcelTmp ==
    /\ call.fn = "_atomic_write_xlsx"
    /\ ret.fn = "to_excel"
    /\ \/ ret' = [ret EXCEPT !.fn = "replace", !.tmp = XlsxOf(call.df)]
       \/ \E k \in 0..Len(call.df) :
             ret' = [ret EXCEPT !.fn = "finally", !.failed = "to_excel",
                                !.tmp = [st |-> "partial",
                                         rows |-> SubSeq(XlsxOf(call.df).rows, 1, k)]]
    /\ UNCHANGED <<jobVars, call>>

\* os.replace(tmp_path, out_path): the rename happens whole or not at all
Replace ==
    /\ call.fn = "_atomic_write_xlsx"
    /\ ret.fn = "replace"
    /\ \E ok \in BOOLEAN :
          ret' = IF ok
                 THEN [ret EXCEPT !.fn = "finally", !.target = ret.tmp,
                                  !.tmp = NoXlsx]
                 ELSE [ret EXCEPT !.fn = "finally", !.failed = "replace"]
    /\ UNCHANGED <<jobVars, call>>

\* finally: if os.path.exists(tmp_path): os.remove(tmp_path); an exception
\* of os.remove is passed over and the file is left
Finally ==
    /\ call.fn = "_atomic_write_xlsx"
    /\ ret.fn = "finally"
    /\ \E removed \in BOOLEAN :
          ret' = IF ret.tmp.st = "none"
                 THEN [ret EXCEPT !.fn = "done"]
                 ELSE IF removed
                      THEN [ret EXCEPT !.fn = "done", !.tmp = NoXlsx]
                      ELSE [ret EXCEPT !.fn = "done", !.left = TRUE]
    /\ UNCHANGED <<jobVars, call>>

AtomicNext ==
    \/ Mkstemp
    \/ ToExcelTmp
    \/ Replace
    \/ Finally

AtomicSpec == AtomicInit /\ [][AtomicNext]_vars

-----------------------------------------------------------------------------
(* Properties *)

\* the rows of a sheet whose first cell is cell
MarkerRows(rows, cell) ==
    {r \in 1..Len(rows) : Len(rows[r]) >= 1 /\ rows[r][1] = cell}

\* the rows of a sheet whose first cell is a marker of the kind
KindRows(rows, kind) ==
    {r \in 1..Len(rows) : Len(rows[r]) >= 1 /\ rows[r][1][1] = kind}

\* every sheet of workbook a is a sheet of workbook b that starts with a's rows
PrefixWb(a, b) ==
    \A s \in DOMAIN a :
        /\ s \in DOMAIN b
        /\ Len(a[s]) <= Len(b[s])
        /\ SubSeq(b[s], 1, Len(a[s])) = a[s]

\* the file d holds a block of week w on the sheet
WeekOnSheet(d, w, sheet) ==
    /\ d.st = "ok"
    /\ sheet \in DOMAIN d.wb
    /\ MarkerRows(d.wb[sheet], WeekMarker(WeekLabel(w))) # {}

\* how many marker rows of week w the sheet of file d holds
WeekCount(d, w, sheet) ==
    IF d.st = "ok" /\ sheet \in DOMAIN d.wb
    THEN Cardinality(MarkerRows(d.wb[sheet], WeekMarker(WeekLabel(w))))
    ELSE 0

Touched(w) == Range(months_hit(w))

FullyRecorded(d, w) == \A sheet \in Touched(w) : WeekOnSheet(d, w, sheet)

WeekNonEmpty(w) == \E o \in provider : w[1] <= o.day /\ o.day <= w[2]

\* the number k of leading windows W1..Wk the file d holds completely
Committed(d) ==
    CHOOSE k \in 0..Len(weeks) :
        /\ \A i \in 1..k : FullyRecorded(d, weeks[i])
        /\ k < Len(weeks) => ~FullyRecorded(d, weeks[k + 1])

\* a LedgerSync run that followed a completed run on the same day has completed
LedgerRerunDone == pc = "done" /\ prev = "done" /\ sameDay

\* C1: a second LedgerSync run over the same range and the same provider data
\* leaves the workbook exactly as the first run left it.
C1_Idempotent == LedgerRerunDone => disk = snap

\* the second run had weeks to ask the provider for again, and blocks to keep
C1_Witness ==
    /\ LedgerRerunDone
    /\ fetched # {}
    /\ \E i \in 1..Len(weeks) : FullyRecorded(disk, weeks[i])
    /\ Cardinality(DOMAIN disk.wb) = 2

\* a LedgerSync run that followed an interrupted run on the same day has completed
Resumed == pc = "done" /\ prev = "crashed" /\ sameDay

C5_Original == disk.st # "partial"

\* C8: every row a month sheet held when a LedgerSync run started is in the
\* file, and in every workbook the run saves, at the same index with the same
\* cells; a week block lands after the sheet's previous last row.
C8_AppendOnly ==
    (pc \in {"loop", "write", "saving", "done", "failed", "crashed"} /\ snap.st = "ok") =>
        /\ disk.st = "ok" => PrefixWb(snap.wb, disk.wb)
        /\ pc = "saving" => PrefixWb(snap.wb, mem)

\* a completed run made a sheet that held blocks longer
C8_Witness ==
    /\ pc = "done"
    /\ snap.st = "ok"
    /\ \E s \in DOMAIN snap.wb :
          /\ KindRows(snap.wb[s], "Week") # {}
          /\ Len(disk.wb[s]) > Len(snap.wb[s])

\* C9 as stated: when the fetch of window Wi fails, the file keeps every
\* segment committed before and holds no row of Wi.
C9_Original ==
    (pc = "failed" /\ failedAt > 0) =>
        /\ PrefixWb(snap.wb, disk.wb)
        /\ \A j \in 1..(failedAt - 1) :
              WeekNonEmpty(weeks[j]) => FullyRecorded(disk, weeks[j])
        /\ \A sheet \in DOMAIN disk.wb : WeekCount(disk, weeks[failedAt], sheet) = 0

\* C9 (amended): when the fetch of window Wi fails, the file keeps every
\* segment committed before, and holds no row of Wi except those an earlier
\* run had committed: the failing run added none.
C9_FailureIsolated ==
    (pc = "failed" /\ failedAt > 0) =>
        /\ disk.st = "ok" \/ (disk.st = "none" /\ snap.st = "none")
        /\ PrefixWb(snap.wb, disk.wb)
        /\ \A j \in 1..(failedAt - 1) :
              WeekNonEmpty(weeks[j]) => FullyRecorded(disk, weeks[j])
        /\ \A sheet \in DOMAIN disk.wb :
              WeekCount(disk, weeks[failedAt], sheet) = WeekCount(snap, weeks[failedAt], sheet)

\* the fetch failed after this run had committed a window to a sheet that
\* held blocks of earlier runs
C9_Witness ==
    /\ pc = "failed"
    /\ failedAt > 1
    /\ snap.st = "ok"
    /\ \E s \in DOMAIN snap.wb :
          /\ KindRows(snap.wb[s], "Week") # {}
          /\ Len(disk.wb[s]) > Len(snap.wb[s])

\* C10 as stated: after the fetch of window Wi failed, the run still fetches
\* the windows that follow Wi.
C10_Original ==
    (pc = "failed" /\ failedAt > 0) =>
        \A j \in (failedAt + 1)..Len(weeks) :
            j \in fetched \/ FullyRecorded(snap, weeks[j])

\* C10 (amended): a failed fetch of window Wi ends the run: no window after Wi
\* is fetched or written in that run.
C10_FailureEndsRun ==
    failedAt > 0 =>
        /\ pc = "failed"
        /\ \A j \in fetched : j <= failedAt
        /\ \A j \in (failedAt + 1)..Len(weeks) : \A sheet \in Touched(weeks[j]) :
              WeekCount(disk, weeks[j], sheet) = WeekCount(snap, weeks[j], sheet)

\* the fetch failed before a window that has records and no segment yet
C10_Witness ==
    /\ pc = "failed"
    /\ failedAt > 0
    /\ \E j \in (failedAt + 1)..Len(weeks) :
          WeekNonEmpty(weeks[j]) /\ ~FullyRecorded(disk, weeks[j])

\* the sheet of the daily file
DSheet(d) == IF d.st = "ok" /\ DailySheet \in DOMAIN d.wb THEN d.wb[DailySheet] ELSE <<>>

\* the first row below row r that holds a Day marker, 0 when there is none
NextDayRow(rows, r) ==
    LET below == {q \in KindRows(rows, "Day") : q > r}
    IN  IF below = {} THEN 0 ELSE CHOOSE q \in below : \A x \in below : q <= x

C4_Original == (pc = "d_done" /\ prev = "d_done" /\ sameDay) => dfile = snap

\* C6: no sheet holds two marker rows of the same kind with the same label.
C6_Original ==
    /\ \A r1, r2 \in KindRows(DSheet(dfile), "Day") :
          r1 # r2 => DSheet(dfile)[r1][1] # DSheet(dfile)[r2][1]
    /\ disk.st = "ok" =>
          \A s \in DOMAIN disk.wb : \A r1, r2 \in KindRows(disk.wb[s], "Week") :
              r1 # r2 => disk.wb[s][r1][1] # disk.wb[s][r2][1]

\* C7: every workbook a run saves over a complete file holds, for each sheet
\* of that file, the same row 1: the header is never reordered, shortened or
\* overwritten, whatever the fields of the new records.
C7_HeaderKept ==
    [][ /\ (pc' \in {"d_save1", "d_save2", "d_save3", "d_save4"} /\ dfile.st = "ok") =>
              \A s \in DOMAIN dfile.wb :
                  s \in DOMAIN mem' /\ Len(mem'[s]) >= 1 /\ mem'[s][1] = dfile.wb[s][1]
        /\ (pc' = "saving" /\ disk.st = "ok") =>
              \A s \in DOMAIN disk.wb :
                  s \in DOMAIN mem' /\ Len(mem'[s]) >= 1 /\ mem'[s][1] = disk.wb[s][1]
      ]_vars

\* a run has written records whose fields differ from the header of the sheet
C7_Witness ==
    /\ pc = "d_done"
    /\ Len(df_today.recs) > 0
    /\ DSheet(dfile)[1] # HeaderRow(df_today.cols)
    /\ \E r \in 1..Len(DSheet(dfile)) : DSheet(dfile)[r] = DataRow(variant, df_today.recs[1], df_today.cols)

\* the priority names, by rank, that a column of the frame has ignoring case
PresentPriority(df) ==
    {p \in 1..Len(PRIORITY_ID_FIELDS) :
        \E j \in 1..Len(df.cols) : lower(df.cols[j]) = lower(PRIORITY_ID_FIELDS[p])}

\* the column of the most canonical priority name the frame has
CanonicalColumn(df) ==
    LET p == CHOOSE x \in PresentPriority(df) : \A y \in PresentPriority(df) : x <= y
    IN  CHOOSE c \in Range(df.cols) : lower(c) = lower(PRIORITY_ID_FIELDS[p])

\* k: the number of distinct text forms of the values in column c
DistinctTexts(df, c) ==
    LET j == CHOOSE q \in 1..Len(df.cols) : df.cols[q] = c
    IN  Cardinality({ IF df.rows[i][j][1] = "nan" THEN "nan" ELSE digits(df.rows[i][j][2]) :
                      i \in 1..Len(df.rows) })

\* C11: for a record set of n rows whose canonical id field holds k distinct
\* values, the estimator returns k (so not n when n > k), whatever other
\* columns the record set has.
C11_UniqueCount ==
    (est_count # -1 /\ Len(est_df.rows) > 0 /\ PresentPriority(est_df) # {}) =>
        est_count = DistinctTexts(est_df, CanonicalColumn(est_df))

\* the estimator was called with n = 2 rows that share one id (k = 1) and
\* that differ in another id-like column
C11_Witness ==
    /\ est_count # -1
    /\ PresentPriority(est_df) # {}
    /\ Len(est_df.rows) = 2
    /\ DistinctTexts(est_df, CanonicalColumn(est_df)) = 1
    /\ \E c \in Range(est_df.cols) : c = "ref_id" /\ DistinctTexts(est_df, c) = 2
    /\ est_count = 1

\* a DailyRotator run has completed on a sheet that held a segment labelled
\* with the day before the run's day
RotatedOverYesterday ==
    /\ pc = "d_done"
    /\ MarkerRows(DSheet(snap), DayMarker(lastDay - 1)) # {}

\* C12: when the run on day D finds a segment of D-1 on the sheet, at the end
\* row 2 holds "Day: D", the next Day marker below is "Day: D-1", and that
\* final segment is the only one of D-1: no row of a partial one remains.
C12_Original ==
    RotatedOverYesterday =>
        /\ Col1(DSheet(dfile), 2) = DayMarker(lastDay)
        /\ NextDayRow(DSheet(dfile), 2) > 2
        /\ Col1(DSheet(dfile), NextDayRow(DSheet(dfile), 2)) = DayMarker(lastDay - 1)
        /\ Cardinality(MarkerRows(DSheet(dfile), DayMarker(lastDay - 1))) = 1

\* the Week labels the file d holds on any sheet
WeekLabelsOf(d) ==
    IF d.st = "ok"
    THEN UNION { _existing_week_labels_in_sheet(d.wb[sh]) : sh \in DOMAIN d.wb }
    ELSE {}

\* a LedgerSync run over 2025-09-01..2025-10-20 has completed on a workbook
\* whose only segments were 2025.09.29-2025.10.05 and 2025.10.06-2025.10.12
ScenarioADone ==
    /\ pc = "done"
    /\ lastDay = 84
    /\ months_back = 1
    /\ WeekLabelsOf(snap) = { <<63, 69>>, <<70, 76>> }

FieldsOn(d) == UNION { o.flds : o \in {x \in provider : x.day = d} }

\* the sorted union of the fields of yesterday's and today's records, the
\* placeholder column (0 stands for "info") when there is none
UnionHeader(d) ==
    IF FieldsOn(d) \cup FieldsOn(d - 1) = {} THEN <<0>>
    ELSE SortedSeq(FieldsOn(d) \cup FieldsOn(d - 1))

\* C14: once the daily job (popfanatic) has opened its sheet, row 1 is the
\* sorted union of the field names of both record sets, or the placeholder
\* column, when the run created the sheet, and the header the sheet had
\* when the sheet existed before the run.
C14_HeaderUnion ==
    (variant = "pop" /\ dfile.st = "ok" /\ pc \in {"d_delete", "d_prep_y", "d_prep_t", "d_done"}) =>
        IF snap.st = "none"
        THEN DSheet(dfile)[1] = HeaderRow(UnionHeader(lastDay))
        ELSE DSheet(dfile)[1] = DSheet(snap)[1]

\* Scenario C: the run created the sheet from records with the fields {1, 2}
\* (yesterday) and {1, 3} (today), and wrote both record sets
C14_Witness ==
    /\ variant = "pop"
    /\ pc = "d_done"
    /\ snap.st = "none"
    /\ FieldsOn(lastDay - 1) = {1, 2}
    /\ FieldsOn(lastDay) = {1, 3}
    /\ DSheet(dfile)[1] = HeaderRow(<<1, 2, 3>>)

\* the positions a LedgerSync run is in
LedgerRunning == pc \in {"loop", "write", "saving", "done", "failed", "crashed"}

\* C15: a window the week loop has passed was skipped (the provider was not
\* asked for it and every workbook the run has saved holds its rows as
\* before) exactly when its label was on every sheet it touches; a window
\* whose label was missing from a touched sheet was fetched.
C15_SkipRule ==
    (LedgerRunning /\ Len(weeks) > 0) =>
        \A i \in 1..Len(weeks) :
            /\ i \in fetched => ~FullyRecorded(snap, weeks[i])
            /\ (i < idx /\ i \notin fetched) =>
                  /\ FullyRecorded(snap, weeks[i])
                  /\ disk.st = "ok" =>
                        \A sheet \in Touched(weeks[i]) :
                            WeekCount(disk, weeks[i], sheet) = WeekCount(snap, weeks[i], sheet)

\* a completed run skipped one window and fetched a window that straddles two
\* months and was on one of its two sheets only
C15_Witness ==
    /\ pc = "done"
    /\ \E i \in 1..Len(weeks) : i \notin fetched /\ FullyRecorded(snap, weeks[i])
    /\ \E i \in fetched : \E s1, s2 \in Touched(weeks[i]) :
          WeekOnSheet(snap, weeks[i], s1) /\ ~WeekOnSheet(snap, weeks[i], s2)

IsMarker(row, kind) == Len(row) >= 1 /\ row[1][1] = kind

IsDataRow(row) == Len(row) >= 1 /\ row[1][1] \in {"val", "str", "nan"}

IsSummary(row, tag, n) == row = << <<tag, 0, 0>>, <<"int", n, 0>> >>

IsSpacer(row) == Len(row) = 0 \/ row[1] = NoneCell

\* the row of the next marker of the kind below row r, Len(rows) + 1 without one
SegmentEnd(rows, kind, r) ==
    LET below == {q \in KindRows(rows, kind) : q > r}
    IN  IF below = {} THEN Len(rows) + 1 ELSE CHOOSE q \in below : \A x \in below : q <= x

\* the number of orders the provider holds for the days s..e
OrdersIn(s, e) == Cardinality({o \in provider : s <= o.day /\ o.day <= e})

\* every marker of the sheet is followed by the data rows of its window, one
\* summary row with their count, and spacer rows up to the next marker
SegmentsComplete(rows, kind, tag) ==
    /\ Len(rows) >= 1
    /\ \A r \in 2..Len(rows) :
          IsMarker(rows[r], kind) \/ IsDataRow(rows[r]) \/ IsSpacer(rows[r])
              \/ (Len(rows[r]) = 2 /\ rows[r][1] = <<tag, 0, 0>>)
    /\ \A r \in KindRows(rows, kind) :
          LET n == OrdersIn(rows[r][1][2], rows[r][1][3])
              e == SegmentEnd(rows, kind, r)
          IN  /\ r + n + 1 < e
              /\ \A q \in (r + 1)..(r + n) : IsDataRow(rows[q])
              /\ IsSummary(rows[r + n + 1], tag, n)
              /\ \A q \in (r + n + 2)..(e - 1) : IsSpacer(rows[q])
    /\ \A r \in 2..Len(rows) :
          ~IsMarker(rows[r], kind) => \E m \in KindRows(rows, kind) : m < r

\* C16: every workbook a run saves, and every complete file, holds complete
\* segments only: each marker is followed by the data rows of its window and
\* exactly one summary row before the next marker, also after a failed or
\* interrupted run.
C16_CompleteSegments ==
    /\ dfile.st = "ok" => SegmentsComplete(DSheet(dfile), "Day", "sumD")
    /\ pc \in {"d_save1", "d_save2", "d_save3", "d_save4"} =>
          SegmentsComplete(mem[DailySheet], "Day", "sumD")
    /\ disk.st = "ok" =>
          \A sh \in DOMAIN disk.wb : SegmentsComplete(disk.wb[sh], "Week", "sumW")
    /\ pc = "saving" =>
          \A sh \in DOMAIN mem : SegmentsComplete(mem[sh], "Week", "sumW")

\* a run was interrupted after it had deleted one of the two segments of an
\* earlier run; the segment that is left has data rows
C16_Witness ==
    /\ pc = "d_crashed"
    /\ dfile.st = "ok"
    /\ Cardinality(KindRows(DSheet(snap), "Day")) = 2
    /\ Cardinality(KindRows(DSheet(dfile), "Day")) = 1
    /\ \E r \in 1..Len(DSheet(dfile)) : IsDataRow(DSheet(dfile)[r])

\* the order a data row was written from
RowOrder(row) ==
    LET ids == {row[i][2] : i \in {j \in 1..Len(row) : row[j][1] = "val"}}
    IN  CHOOSE o \in provider : o.id \in ids

\* every data row of the sheet holds, in column i, the value of its order
\* for the field row 1 names in column i, and no value in any other column
RowsFollowHeader(rows) ==
    \A r \in {q \in 2..Len(rows) : \E j \in 1..Len(rows[q]) : rows[q][j][1] = "val"} :
        /\ \A i \in 1..Len(rows[r]) :
              rows[r][i][1] = "val" =>
                  /\ i <= Len(rows[1])
                  /\ rows[1][i] = <<"col", rows[r][i][3], 0>>
                  /\ rows[r][i][2] = RowOrder(rows[r]).id
        /\ \A i \in 1..Len(rows[1]) :
              rows[1][i][2] \in RowOrder(rows[r]).flds =>
                  /\ i <= Len(rows[r])
                  /\ rows[r][i] = <<"val", RowOrder(rows[r]).id, rows[1][i][2]>>

\* C17: in every complete file every data row follows the header of its
\* sheet, also when the sheet existed with a header that differs from the
\* fields of the new records.
C17_Original ==
    /\ dfile.st = "ok" => RowsFollowHeader(DSheet(dfile))
    /\ disk.st = "ok" => \A sh \in DOMAIN disk.wb : RowsFollowHeader(disk.wb[sh])

\* a first-column cell with a reserved value
ReservedCell(row) ==
    Len(row) >= 1 /\ row[1][1] \in {"Day", "Week", "sumD", "sumW"}

\* the rows the segment writers write with a reserved first cell
WrittenReserved(row) ==
    \/ Len(row) = 1 /\ row[1][1] \in {"Day", "Week"}
    \/ Len(row) = 2 /\ row[1] \in {<<"sumD", 0, 0>>, <<"sumW", 0, 0>>}
                    /\ row[2][1] = "int"

\* the rows _find_batch_bounds takes for the start of a batch and for the
\* start of the next batch are rows written as markers
BoundsAreMarkers(rows, label) ==
    LET b == _find_batch_bounds(rows, label)
    IN  b # <<0, 0>> =>
            /\ WrittenReserved(rows[b[1]])
            /\ b[2] < max_row(rows) => WrittenReserved(rows[b[2] + 1])

ReservedOnlyWritten(rows) ==
    /\ \A r \in 2..Len(rows) : ReservedCell(rows[r]) => WrittenReserved(rows[r])
    /\ \A label \in {lastDay - 1, lastDay} : BoundsAreMarkers(rows, label)

\* C18: in every complete file, a row whose first cell holds a reserved
\* value ("Day: ...", "Week: ..." or a summary label) is a marker or summary
\* row written by a segment writer, never a data row, and the batch locator
\* takes no data row for a batch boundary.
C18_Original ==
    /\ dfile.st = "ok" => ReservedOnlyWritten(DSheet(dfile))
    /\ disk.st = "ok" => \A sh \in DOMAIN disk.wb : ReservedOnlyWritten(disk.wb[sh])

\* a step of the week loop in which get_all_orders is called
AsksProvider ==
    /\ pc = "loop"
    /\ idx <= Len(weeks)
    /\ ~WeekRecorded(labels, weeks[idx])
    /\ \/ pc' \in {"write", "failed"}
       \/ pc' = "loop" /\ idx' = idx + 1

\* the windows the week loop has fetched and is through with
FetchedAndPassed == {i \in fetched : i < idx /\ failedAt # i}

\* the sheets of the file that window w does not touch hold no marker of w
OnlyOnTouched(d, w) ==
    d.st = "ok" => \A sheet \in DOMAIN d.wb \ Touched(w) : WeekCount(d, w, sheet) = 0

WrittenWhereMissing ==
    (LedgerRunning /\ disk.st = "ok") =>
        \A i \in FetchedAndPassed :
            /\ \A sheet \in Touched(weeks[i]) :
                  WeekCount(disk, weeks[i], sheet) =
                      IF WeekOnSheet(snap, weeks[i], sheet)
                      THEN WeekCount(snap, weeks[i], sheet)
                      ELSE IF WeekNonEmpty(weeks[i]) THEN 1 ELSE 0
            /\ OnlyOnTouched(disk, weeks[i])

LedgerDone == pc = "done" /\ Len(weeks) > 0

WrittenBefore == {i \in fetched : i < idx /\ WeekNonEmpty(weeks[i])}

\* C21: when the week loop is about to ask the provider for the next window
\* (or to end), the file on disk is complete and holds the segment of every
\* window the run has fetched so far on every sheet the window touches.
C21_PersistedBeforeNextFetch ==
    (pc = "loop" /\ WrittenBefore # {}) =>
        /\ disk.st = "ok"
        /\ \A i \in WrittenBefore : FullyRecorded(disk, weeks[i])

\* the loop is about to fetch a window after it has written an earlier one
\* of this run to a sheet that lacked it
C21_Witness ==
    /\ pc = "loop"
    /\ idx <= Len(weeks)
    /\ ~WeekRecorded(labels, weeks[idx])
    /\ \E i \in WrittenBefore :
          /\ ~FullyRecorded(snap, weeks[i])
          /\ FullyRecorded(disk, weeks[i])

\* the windows are in increasing date order, pairwise disjoint, and their
\* union is start_dt..end_dt
Partitions(R, start_dt, end_dt) ==
    /\ Len(R) >= 1
    /\ \A i \in 1..Len(R) : R[i][1] <= R[i][2]
    /\ \A i, j \in 1..Len(R) : i < j => R[i][2] < R[j][1]
    /\ UNION {R[i][1]..R[i][2] : i \in 1..Len(R)} = start_dt..end_dt

\* every window lies in one Monday-to-Sunday week, and only the first and the
\* last window may be shorter than seven days
WeekAligned(R) ==
    /\ \A i \in 1..Len(R) :
          R[i][1] - weekday(R[i][1]) = R[i][2] - weekday(R[i][2])
    /\ \A i \in 2..(Len(R) - 1) : R[i][2] - R[i][1] = 6

PartitionReturned == call.fn = "weekly_ranges_between" /\ ret.fn = "returned"

\* C22: for start_dt <= end_dt weekly_ranges_between returns, and the windows
\* it returns are in increasing date order, pairwise disjoint, cover exactly
\* start_dt..end_dt, lie each in one Monday-to-Sunday week, and only the
\* first and the last may be shorter than seven days; the windows are those
\* LedgerSync works on.
C22_WindowPartition ==
    /\ [](PartitionReturned =>
            /\ Partitions(ret.ranges, call.start_dt, call.end_dt)
            /\ WeekAligned(ret.ranges)
            /\ ret.ranges = weekly_ranges_between(call.start_dt, call.end_dt))
    /\ <>PartitionReturned

\* a range that starts and ends inside a week: three windows, the first and
\* the last shorter than seven days
C22_Witness ==
    /\ PartitionReturned
    /\ Len(ret.ranges) = 3
    /\ ret.ranges[1][2] - ret.ranges[1][1] < 6
    /\ ret.ranges[3][2] - ret.ranges[3][1] < 6

\* the first days of the months that hold at least one day of window w
MonthsWithDayIn(w) ==
    {Months[k].first : k \in {j \in 1..Len(Months) :
                                 Months[j].first <= w[2] /\ w[1] <= Months[j].last}}

\* the window has days of two months
Straddles(w) == MonthRec(w[1]) # MonthRec(w[2])

\* the sheets of file d that hold a marker of window w
SheetsHolding(d, w) == {sheet \in DOMAIN d.wb : WeekCount(d, w, sheet) > 0}

\* C23: for every window of the run's partition week_months_covered returns
\* exactly the months that hold a day of the window, one month or two, two
\* exactly when the window straddles a month boundary; a window that was
\* written is on one sheet per returned month and on no other sheet.
C23_TouchedSheets ==
    (LedgerRunning /\ Len(weeks) > 0) =>
        \A i \in 1..Len(weeks) :
            LET w == weeks[i]
                ms == week_months_covered(w[1], w[2])
            IN  /\ Range(ms) = MonthsWithDayIn(w)
                /\ Len(ms) = Cardinality(Range(ms))
                /\ Len(ms) \in {1, 2}
                /\ Len(ms) = 2 <=> Straddles(w)
                /\ (i \in WrittenBefore /\ disk.st = "ok") =>
                      /\ SheetsHolding(disk, w) = {month_sheet_name(ms[k]) : k \in 1..Len(ms)}
                      /\ \A sheet \in SheetsHolding(disk, w) : WeekCount(disk, w, sheet) = 1

\* a finished run wrote a window of one month to one sheet and a window that
\* straddles a month boundary to two sheets
C23_Witness ==
    /\ pc = "done"
    /\ disk.st = "ok"
    /\ \E i \in WrittenBefore :
          ~Straddles(weeks[i]) /\ Cardinality(SheetsHolding(disk, weeks[i])) = 1
    /\ \E i \in WrittenBefore :
          /\ Straddles(weeks[i])
          /\ SheetsHolding(snap, weeks[i]) = {}
          /\ Cardinality(SheetsHolding(disk, weeks[i])) = 2

\* the columns whose name ends in an id suffix and holds no exclude keyword
IdLikeColumns(df) ==
    {c \in Range(df.cols) :
        /\ ends_with_id(lower(c))
        /\ \A k \in EXCLUDE_ID_KEYWORDS : ~contains(lower(c), k)}

\* the result of the three rules, the first that matches
RuleResult(df) ==
    IF PresentPriority(df) # {} THEN DistinctTexts(df, CanonicalColumn(df))
    ELSE IF IdLikeColumns(df) # {}
         THEN LET counts == {DistinctTexts(df, c) : c \in IdLikeColumns(df)}
              IN  CHOOSE n \in counts : \A m \in counts : m <= n
         ELSE Len(df.rows)

ReindexReturned == call.fn = "reindex" /\ ret.fn = "returned"

\* C25: the reindexed frame has one row per record and each row has one value
\* per header column, in header order: the record's value of the field the
\* column names, the empty value when the record lacks the field; a field of
\* the record that the header does not name has no value in the row.
C25_Reindex ==
    ReindexReturned =>
        /\ Len(ret.rows) = Len(call.df.recs)
        /\ \A r \in 1..Len(ret.rows) :
              LET rec == call.df.recs[r]
                  row == ret.rows[r]
              IN  /\ Len(row) = Len(call.header_cols)
                  /\ \A i \in 1..Len(row) :
                        row[i] = IF call.header_cols[i] \in rec.flds
                                 THEN <<"val", rec.id, call.header_cols[i]>>
                                 ELSE IF call.v = "unas" THEN StrCell ELSE NaNCell
                  /\ \A f \in rec.flds \ Range(call.header_cols) :
                        \A i \in 1..Len(row) : row[i] # <<"val", rec.id, f>>

\* a record was reindexed to a header that lacks one of its fields, names a
\* field it does not have, and has its other field in another position
C25_Witness ==
    /\ ReindexReturned
    /\ Len(ret.rows) = 2
    /\ \E r \in 1..Len(ret.rows) :
          LET rec == call.df.recs[r]
          IN  /\ rec.flds \ Range(call.header_cols) # {}
              /\ Range(call.header_cols) \ rec.flds # {}
              /\ \E i \in 1..Len(call.header_cols) :
                    /\ call.header_cols[i] \in rec.flds
                    /\ \A j \in 1..Len(call.df.cols) :
                          call.df.cols[j] = call.header_cols[i] => j # i

\* the cells of row r of a sheet, none for a row below the last one
RowAt(rows, r) == IF r >= 1 /\ r <= Len(rows) THEN rows[r] ELSE <<>>

\* the first cell of row r reads "Day: ..."
DayRow(rows, r) == Col1(rows, r)[1] = "Day"

FindBoundsReturned == call.fn = "_find_batch_bounds" /\ ret.fn = "returned"

\* C26: _find_batch_bounds returns None exactly when no first-column cell
\* equals "Day: <label>"; otherwise start is the topmost row whose first cell
\* equals it, and end is the row just before the next row below start whose
\* first cell reads "Day: ...", or the last row when there is none.
C26_FindBounds ==
    FindBoundsReturned =>
        LET rows == call.rows
            hits == {r \in 1..Len(rows) : Col1(rows, r) = DayMarker(call.label)}
            start == ret.bounds[1]
            end == ret.bounds[2]
        IN  /\ ret.bounds = <<0, 0>> <=> hits = {}
            /\ hits # {} =>
                  /\ start \in hits
                  /\ \A r \in hits : start <= r
                  /\ start <= end /\ end <= Len(rows)
                  /\ \A r \in (start + 1)..end : ~DayRow(rows, r)
                  /\ end < Len(rows) => DayRow(rows, end + 1)

\* the label is on the sheet twice, a Week marker lies in the batch found,
\* and the second marker of the label ends it
C26_Witness ==
    /\ FindBoundsReturned
    /\ Cardinality({r \in 1..Len(call.rows) :
                       Col1(call.rows, r) = DayMarker(call.label)}) = 2
    /\ ret.bounds[1] = 2
    /\ ret.bounds[2] = 3
    /\ Col1(call.rows, 3)[1] = "Week"
    /\ Len(call.rows) = 4

DeleteBatchReturned == call.fn = "delete_batch_by_label" /\ ret.fn = "returned"

\* C27: when the label is found, delete_batch_by_label returns True and the
\* sheet it saves is the sheet without the rows start..end: every row above
\* start is as it was, and every row below end has moved up by the number of
\* rows removed, with its cells unchanged; when the label is not found it
\* returns False and the sheet is as it was.
C27_Delete ==
    DeleteBatchReturned =>
        LET rows == call.rows
            hits == {r \in 1..Len(rows) : Col1(rows, r) = DayMarker(call.label)}
            start == CHOOSE r \in hits : \A q \in hits : r <= q
            below == {r \in (start + 1)..Len(rows) : DayRow(rows, r)}
            end == IF below = {} THEN Len(rows)
                   ELSE (CHOOSE r \in below : \A q \in below : r <= q) - 1
            amount == end - start + 1
        IN  /\ ret.deleted <=> hits # {}
            /\ hits = {} => ret.rows = rows
            /\ hits # {} =>
                  /\ Len(ret.rows) <= Len(rows) - amount
                  /\ \A r \in 1..Len(rows) :
                        RowAt(ret.rows, r) =
                            IF r < start THEN rows[r] ELSE RowAt(rows, r + amount)

\* a batch was removed from between two other batches
C27_Witness ==
    /\ DeleteBatchReturned
    /\ ret.deleted
    /\ Len(call.rows) = 4
    /\ Len(ret.rows) = 3
    /\ ret.rows = <<call.rows[1], call.rows[2], call.rows[4]>>
    /\ DayRow(call.rows, 2)
    /\ DayRow(call.rows, 4)

PrependBatchReturned == call.fn = "prepend_batch_to_excel" /\ ret.fn = "returned"

\* C28: prepend_batch_to_excel with n records and s spacer rows leaves row 1
\* as it was, puts the marker at row 2, the n data rows at rows 3..n+2, the
\* summary row at row n+3, no cell in the s rows below it, and has every row
\* that was at index r >= 2 at index r + (n + 2 + s) with its cells unchanged.
C28_WriteTop ==
    PrependBatchReturned =>
        LET rows == call.rows
            n == Len(call.df.recs)
            s == call.spacer_rows
        IN  /\ ret.rows[1] = rows[1]
            /\ ret.rows[2] = <<DayMarker(call.label)>>
            /\ \A i \in 1..n :
                  ret.rows[2 + i] = DataRow("unas", call.df.recs[i], call.df.cols)
            /\ Len(ret.rows[n + 3]) = 2
            /\ ret.rows[n + 3][1] = <<"sumD", 0, 0>>
            /\ ret.rows[n + 3][2][1] = "int"
            /\ \A r \in (n + 4)..(n + 3 + s) : RowAt(ret.rows, r) = <<>>
            /\ \A r \in 2..Len(rows) : RowAt(ret.rows, r + n + 2 + s) = rows[r]
            /\ Len(ret.rows) = IF Len(rows) >= 2 THEN Len(rows) + n + 2 + s ELSE n + 3

\* a batch of two records and two spacer rows was written above a batch
\* that the sheet held
C28_Witness ==
    /\ PrependBatchReturned
    /\ Len(call.df.recs) = 2
    /\ call.spacer_rows = 2
    /\ Len(call.rows) = 4
    /\ DayRow(call.rows, 2)
    /\ Len(ret.rows) = 10
    /\ ret.rows[8] = call.rows[2]

OpenReturned ==
    call.fn = "_open_or_init_wb_with_header" /\ ret.fn \in {"returned", "again"}

\* the file held the sheet before the call
SheetExisted == call.d.st = "ok" /\ call.sheet_name \in DOMAIN call.d.wb

\* C29: _open_or_init_wb_with_header returns a workbook that holds the sheet;
\* a sheet it had to create has the given header as row 1 and no other row;
\* a sheet that existed, and every other sheet of the file, is cell for cell
\* as it was, also when the given header differs from the sheet's row 1; a
\* second call on the saved workbook changes nothing, whatever header it is
\* called with.
C29_OpenOrCreate ==
    OpenReturned =>
        /\ call.sheet_name \in DOMAIN ret.wb
        /\ DOMAIN ret.wb = DOMAIN call.d.wb \cup {call.sheet_name}
        /\ \A n \in DOMAIN call.d.wb : ret.wb[n] = call.d.wb[n]
        /\ ~SheetExisted => ret.wb[call.sheet_name] = <<HeaderRow(call.header_cols)>>
        /\ ret.fn = "again" => ret.wb2 = ret.wb

\* the sheet existed with another header than the one given and was left
\* as it was; the second call, with yet another header, changed nothing
C29_Witness ==
    /\ OpenReturned
    /\ ret.fn = "again"
    /\ SheetExisted
    /\ call.d.wb[call.sheet_name][1] # HeaderRow(call.header_cols)
    /\ ret.header_cols # call.header_cols
    /\ ret.wb2[call.sheet_name][1] # HeaderRow(ret.header_cols)
    /\ Cardinality(DOMAIN ret.wb2) = 2

NetEnded == call.fn \in NetFns /\ ret.fn \in {"returned", "raised"}

\* the call went on after transient statuses only, returned at the first 200
\* and raised either on a status that is not transient or after MaxAttempts
\* transient ones
RetriedUntilDone ==
    LET n == Len(ret.seen)
    IN  /\ n >= 1 /\ n <= MaxAttempts
        /\ \A i \in 1..(n - 1) : ret.seen[i] \in TransientStatuses
        /\ ret.fn = "returned" <=> ret.seen[n] = 200
        /\ ret.fn = "raised" =>
              \/ ret.seen[n] \notin TransientStatuses
              \/ n = MaxAttempts

\* C30: every call to the provider sends a further request after a transient
\* status (429, 500, 502, 503, 504), raises after four requests that all got
\* one, and returns at the first 200 response without a further request.
C30_Original == NetEnded => RetriedUntilDone

\* the statuses the claim calls non-transient
NonTransientStatuses == Statuses \ {200, 429, 500, 502, 503, 504}

\* C31: a status other than 200, 429, 500, 502, 503, 504 is the status of the
\* last request of the call, and the call has raised: no retry and no further
\* request follows it.
C31_NonTransientRaises ==
    (call.fn \in NetFns /\ ret.fn \in {"loop", "returned", "raised"}) =>
        \A i \in 1..Len(ret.seen) :
            ret.seen[i] \in NonTransientStatuses =>
                i = Len(ret.seen) /\ ret.fn = "raised"

\* get_orders got a transient status, went on, got 404 with its second
\* request and raised
C31_Witness ==
    /\ call.fn = "get_orders"
    /\ ret.fn = "raised"
    /\ ret.seen = <<429, 404>>

PageEnded == call.fn \in PageFns /\ ret.fn \in {"returned", "raised"}

RECURSIVE Concat(_)
\* the pages of a sequence of pages, one after the other
Concat(ps) == IF Len(ps) = 0 THEN <<>> ELSE ps[1] \o Concat(Tail(ps))

\* the offsets grow by one page from 0, every recorded page but the last was
\* full, a returned call ended on a short page (get_all_orders: or on its
\* max_pages-th request), and the orders collected are those of the pages
\* in page order
PagesInOrder ==
    (call.fn \in PageFns /\ ret.fn \in {"loop", "returned"} /\ ret.tick = 0) =>
        LET n == Len(ret.got)
            step == IF call.fn = "get_all_orders" THEN call.batch_size ELSE 1
        IN  /\ \A i \in 1..n : ret.offsets[i] = (i - 1) * step
            /\ \A i \in 1..(n - 1) : Len(ret.got[i]) = call.batch_size
            /\ ret.fn = "returned" =>
                  \/ Len(ret.got[n]) < call.batch_size
                  \/ call.fn = "get_all_orders" /\ n = call.max_pages
            /\ call.fn = "get_all_orders" => n <= call.max_pages
            /\ ret.collected = Concat(ret.got)

\* get_all_orders ends, whatever the provider answers
GetAllOrdersEnds == call.fn = "get_all_orders" => <>PageEnded

\* C32: the paging loops ask for the pages in increasing offset order, stop
\* at the first short or empty page, return the orders of all pages once and
\* in page order, and end whatever the provider answers.
C32_Original == []PagesInOrder /\ <>PageEnded

SummarySynced == call.fn = "sync_daily_summary_from_temp" /\ ret.fn = "synced"

RECURSIVE DayPairs(_, _)
\* the columns of the days ds as a summary file holds them: the day column
\* and one blank spacer column each
DayPairs(files, ds) ==
    IF Len(ds) = 0 THEN <<>>
    ELSE LET f == CHOOSE x \in files : x.day = ds[1]
         IN  << [hdr |-> <<"day", f.day>>,
                 cells |-> << <<"text", f.rows>>, <<"text", f.rows>> >>],
                [hdr |-> <<"blank", 0>>,
                 cells |-> << <<"blank", 0>>, <<"blank", 0>> >>] >>
                \o DayPairs(files, Tail(ds))

\* the days of the folder that the summary did not hold, in file order
AbsentDays == SortedSeq({f.day : f \in ret.files \ ret.had})

\* C33: sync_daily_summary_from_temp creates the summary from all day files
\* when there is none; otherwise it appends the columns of exactly the absent
\* days, each with one blank spacer column, leaves every column the file had
\* as it was, and does not write the file when no day is absent.
C33_Original ==
    SummarySynced =>
        IF ret.before.st = "none"
        THEN ret.out.cols = DayPairs(ret.files, SortedSeq({f.day : f \in ret.files}))
        ELSE IF Len(AbsentDays) = 0
        THEN ~ret.wrote /\ ret.out = ret.before
        ELSE /\ ret.wrote
             /\ ret.out.cols = ret.before.cols \o DayPairs(ret.files, AbsentDays)

\* the same with the columns the file had compared by what they show: a day
\* column keeps its place, its day and its two numbers, a spacer column
\* keeps its place and its empty cells
SameShown(a, b) ==
    /\ Len(a) = Len(b)
    /\ \A i \in 1..Len(a) :
          /\ a[i].hdr[1] = "day" => b[i].hdr = a[i].hdr
          /\ a[i].hdr[1] # "day" => b[i].hdr[1] # "day"
          /\ \A k \in 1..2 : a[i].cells[k][2] = b[i].cells[k][2]
                             /\ (a[i].cells[k][1] = "blank" <=> b[i].cells[k][1] = "blank")

DaysAppended ==
    (SummarySynced /\ ret.before.st = "ok" /\ Len(AbsentDays) > 0) =>
        /\ Len(ret.out.cols) = Len(ret.before.cols) + 2 * Len(AbsentDays)
        /\ SameShown(ret.before.cols, SubSeq(ret.out.cols, 1, Len(ret.before.cols)))
        /\ SubSeq(ret.out.cols, Len(ret.before.cols) + 1, Len(ret.out.cols))
              = DayPairs(ret.files, AbsentDays)

\* the Week labels of a sheet cover no date twice
LabelsDisjoint(L) ==
    \A a \in L : \A b \in L : a # b => (a[2] < b[1] \/ b[2] < a[1])

\* C34: after any sequence of LedgerSync runs on different days, no date is
\* covered by two different Week segments of one month sheet.
C34_Original ==
    (disk.st = "ok" /\ pc \in Ended) =>
        \A sh \in DOMAIN disk.wb :
            LabelsDisjoint(_existing_week_labels_in_sheet(disk.wb[sh]))

\* C35: after a successful DailyRotator run the only segment that may hold
\* partial-day data is the topmost segment for today. A segment labelled
\* today was written today, from a fetch made before the day ended, so the
\* claim has no segment of today below row 2.
C35_Original ==
    pc = "d_done" => MarkerRows(DSheet(dfile), DayMarker(lastDay)) \subseteq {2}

\* the steps of a daily run that come after both fetches have returned
AfterFetches ==
    {"d_init", "d_save1", "d_delete", "d_save2", "d_prep_y", "d_save3", "d_prep_t", "d_save4"}

\* C36: a DailyRotator run that ends with a provider failure leaves the file
\* as it was before the run, and the file is written only in steps that come
\* after both record sets were fetched.
C36_FailureKeepsSheet ==
    /\ [](pc = "d_failed" => dfile = snap)
    /\ [][dfile' # dfile => pc \in AfterFetches]_vars

\* a run on a sheet that holds a segment of yesterday ended with a provider
\* failure
C36_Witness ==
    /\ pc = "d_failed"
    /\ dfile.st = "ok"
    /\ MarkerRows(DSheet(dfile), DayMarker(lastDay - 1)) # {}
    /\ dfile = snap

BlockWritten ==
    /\ call.fn \in {"append_week_block", "prepend_batch_to_excel"}
    /\ ret.fn = "returned"

\* the rows of a sheet that are summary rows
SummaryRows(rows) ==
    {r \in 1..Len(rows) : Len(rows[r]) = 2 /\ rows[r][1][1] \in {"sumW", "sumD"}}

\* C37: the segment written holds one summary row; its integer is at least
\* 0 and at most the number of data rows between the marker and it, and at
\* least 1 when there is a data row.
C37_SummaryBound ==
    BlockWritten =>
        /\ Cardinality(SummaryRows(ret.rows)) = 1
        /\ \A r \in SummaryRows(ret.rows) :
              LET n == r - 3
                  count == ret.rows[r][2][2]
              IN  /\ n = Len(call.df.recs)
                  /\ Col1(ret.rows, 2)[1] \in {"Week", "Day"}
                  /\ \A q \in 3..(r - 1) : IsDataRow(ret.rows[q])
                  /\ ret.rows[r][2][1] = "int"
                  /\ 0 <= count /\ count <= n
                  /\ n >= 1 => count >= 1

\* two rows of one order were written: the summary row holds 1
C37_Witness ==
    /\ BlockWritten
    /\ Len(call.df.recs) = 2
    /\ call.df.recs[1].id = call.df.recs[2].id
    /\ 1 \in call.df.recs[1].flds /\ 1 \in call.df.recs[2].flds
    /\ \E r \in SummaryRows(ret.rows) : r = 5 /\ ret.rows[r][2][2] = 1

\* estimate_unique_order_count on a frame with a column returns at most the
\* number of rows, and at least 1 when there is a row
EstimateBounded ==
    (est_count # -1 /\ Len(est_df.cols) > 0) =>
        /\ 0 <= est_count /\ est_count <= Len(est_df.rows)
        /\ Len(est_df.rows) >= 1 => est_count >= 1

PipelineRunning == call.fn = "main" /\ ret.fn \in {"loop", "exited"}

\* the steps started are 1, 2, ... in this order, each after the one before
\* it exited with code 0; a step that exited with another code ends the run
\* with that code, a missing script with 1; the closing message is logged
\* when, and only when, all steps exited with code 0
FailFast ==
    PipelineRunning =>
        LET n == Len(ret.codes)
            AllZero == \A i \in 1..n : ret.codes[i] = 0
        IN  /\ \A i \in 1..Len(ret.started) : ret.started[i] = i
            /\ Len(ret.started) = IF ret.raised THEN n + 1 ELSE n
            /\ \A i \in 1..(n - 1) : ret.codes[i] = 0
            /\ (n >= 1 /\ ret.codes[n] \in 1..255) =>
                  ret.fn = "exited" /\ ret.exit = ret.codes[n]
            /\ (ret.raised \/ ~AllZero) => ret.fn = "exited" /\ ret.exit # 0
            /\ (ret.fn = "exited" /\ n < NSteps /\ AllZero /\ ~ret.raised) =>
                  (n + 1) \notin call.exists /\ ret.exit = 1
            /\ ret.finished => n = NSteps /\ AllZero
            /\ (ret.fn = "exited" /\ n = NSteps /\ AllZero) =>
                  ret.finished /\ ret.exit = 0

\* C38: run.py runs the steps in order, each after the one before it exited
\* with code 0, exits with the failing step's code (1 for a missing script)
\* and starts nothing after that, and logs the closing message only when
\* every step exited with code 0.
C38_FailFast ==
    /\ []FailFast
    /\ [][(call.fn = "main" /\ ret.fn = "exited") => ret' = ret]_vars

\* the first step exited with 0, the second with 2: the run ended with 2
\* and the third step was not started
C38_Witness ==
    /\ call.fn = "main"
    /\ ret.fn = "exited"
    /\ ret.codes = <<0, 2>>
    /\ ret.started = <<1, 2>>
    /\ ret.exit = 2
    /\ ~ret.finished
    /\ 3 \in call.exists

ShopsEnded == call.fn = "run_all_shops" /\ ret.fn = "loop" /\ ret.end # "none"

NotExcluded(k) == k \notin call.exclude_shop

\* C39: when run_all_shops has ended and no step failed on the network, a
\* file or a missing API key, main has run to completion for exactly the
\* shops that are not excluded, in the order of the dict.
C39_Original ==
    (ShopsEnded /\ ~ret.envfail) =>
        /\ ret.end = "returned"
        /\ ret.done = SelectSeq(ShopKeys, NotExcluded)

\* no excluded shop is started, the shops are visited in the order of the
\* dict, and the first shop that is not excluded ends the run in count_emails
ShopsUpToCount ==
    (call.fn = "run_all_shops" /\ ret.fn = "loop") =>
        /\ ret.done = <<>>
        /\ ret.skipped = SubSeq(ShopKeys, 1, Len(ret.skipped))
        /\ \A j \in 1..Len(ret.skipped) : ret.skipped[j] \in call.exclude_shop
        /\ ret.step > 0 => ShopKeys[ret.i] \notin call.exclude_shop
        /\ ret.end = "returned" => call.exclude_shop = ShopSet
        /\ (ret.end = "raised" /\ ~ret.envfail) => ret.step = Len(MainSteps)

AtomicCalled == call.fn = "_atomic_write_xlsx" /\ ret # NoCall

AtomicDone == AtomicCalled /\ ret.fn = "done"

\* C40: _atomic_write_xlsx: the target is at every moment its previous
\* content or the complete new content; after a failure of the write of the
\* temporary file or of the replace the target has its previous content,
\* after a success the complete new content; the temporary file is gone at
\* the end in both cases (os.remove of it working).
C40_AtomicWrite ==
    /\ AtomicCalled => ret.target \in {call.prev, XlsxOf(call.df)}
    /\ (AtomicDone /\ ret.failed \in {"to_excel", "replace"}) =>
          /\ ret.target = call.prev
          /\ ~ret.left => ret.tmp = NoXlsx
    /\ (AtomicDone /\ ret.failed = "none") =>
          /\ ret.target = XlsxOf(call.df)
          /\ ret.tmp = NoXlsx
          /\ ~ret.left

\* the write of a two-row frame failed half way over an older file: the
\* older file is kept and the temporary file is removed
C40_Witness ==
    /\ AtomicDone
    /\ ret.failed = "to_excel"
    /\ Len(call.df) = 2
    /\ call.prev.st = "ok"
    /\ call.prev # XlsxOf(call.df)
    /\ ret.target = call.prev
    /\ ret.tmp = NoXlsx
    /\ ~ret.left

====
